---------------------------- MODULE Spec2Model ----------------------------
(***************************************************************************)
(* News aggregation, sentiment and recommendation pipeline of the          *)
(* investment API (backend/main.py), the standalone report runner          *)
(* (deploy_daily_report.py) and the Indian-market provider adapter         *)
(* (backend/indian_stock_api.py).                                          *)
(*                                                                         *)
(* Numbers: polarity, subjectivity and confidence are held in hundredths   *)
(* (0.10 is 10, -0.05 is -5, 0.5 is 50); an average is the exact fraction  *)
(* [num, den] in hundredths.  Text is a sequence of tokens, " " being a    *)
(* whitespace character and every other token a word.                      *)
(***************************************************************************)
EXTENDS Integers, Sequences, FiniteSets, TLC

VARIABLES
    upstream,   \* yfinance: ticker -> the raw news items the provider holds
    now,        \* time.time(), in seconds
    cache,      \* _cache: key -> [data, timestamp]
    pc,         \* request thread: "idle", "fanout" (inside news()), "done"
    call,       \* the endpoint being served
    args,       \* its argument (compare_stocks: the ticker list)
    fut,        \* news(): future_to_ticker, ticker -> state of its future
    all_news,   \* news(): the list being collected
    ret,        \* the response of the call that has finished: a record
                \* whose field says which response it is
    env,        \* the environment: the configured API keys
    ad_pc,      \* adapter call: "idle", "first", "retry", "returned", "raised"
    ad_call,    \* the adapter function called and its argument
    ad_sent,    \* the HTTP requests the call has sent, in order
    ad_recv,    \* the outcomes of those requests, in order
    ad_ret,     \* what the call returned, or the exception it raised
    market,     \* yfinance: ticker -> what the technical and fundamental
                \* lookups find for it
    fn,         \* a function applied on its own: its arguments and result
    pool,       \* news() at the size of the real universe: the executor's
                \* tasks, counted
    threads     \* request threads that run news() at the same time: where
                \* each stands and its local variables

apiVars == <<upstream, now, cache, pc, call, args, fut, all_news, ret>>
adVars == <<env, ad_pc, ad_call, ad_sent, ad_recv, ad_ret>>
fnVars == <<market, fn>>
vars == <<upstream, now, cache, pc, call, args, fut, all_news, ret,
          env, ad_pc, ad_call, ad_sent, ad_recv, ad_ret, market, fn, pool, threads>>

---------------------------------------------------------------------------
(* Bounds of the model *)

MaxTime == 400

---------------------------------------------------------------------------
(* Program constants *)

US_TICKERS == <<"AAPL", "MSFT">>
INDIAN_TICKERS == <<"TCS.NS">>
TICKERS == US_TICKERS \o INDIAN_TICKERS

CACHE_TTL == 300
MAX_WORKERS == 20
BUY_THRESHOLD == 10
SELL_THRESHOLD == -5
BASE_CONFIDENCE == 50
MIN_CONFIDENCE == 30
MAX_CONFIDENCE == 100

---------------------------------------------------------------------------
(* Helpers on sequences *)

Range(s) == {s[i] : i \in 1..Len(s)}

RECURSIVE SeqSum(_)
SeqSum(s) == IF s = <<>> THEN 0 ELSE Head(s) + SeqSum(Tail(s))

RECURSIVE Concat(_)
Concat(ss) == IF ss = <<>> THEN <<>> ELSE Head(ss) \o Concat(Tail(ss))

Max2(a, b) == IF a >= b THEN a ELSE b
Min2(a, b) == IF a <= b THEN a ELSE b

---------------------------------------------------------------------------
(* Text *)

SP == " "

RECURSIVE LStrip(_)
LStrip(s) == IF s # <<>> /\ Head(s) = SP THEN LStrip(Tail(s)) ELSE s

RECURSIVE RStrip(_)
RStrip(s) ==
    IF s # <<>> /\ s[Len(s)] = SP THEN RStrip(SubSeq(s, 1, Len(s) - 1)) ELSE s

Strip(s) == RStrip(LStrip(s))

(* TextBlob's lexicon: the polarity and subjectivity of a word *)
WordPolarity(w) ==
    CASE w = "up"   -> 10
      [] w = "dip"  -> -5
      [] OTHER      -> 0

WordSubjectivity(w) ==
    CASE w = "up"   -> 20
      [] w = "dip"  -> 40
      [] OTHER      -> 0

Words(text) == SelectSeq(text, LAMBDA w : w # SP)

(* TextBlob(text).sentiment: the mean over the words of the text *)
RECURSIVE PolaritySum(_)
PolaritySum(ws) ==
    IF ws = <<>> THEN 0 ELSE WordPolarity(Head(ws)) + PolaritySum(Tail(ws))

RECURSIVE SubjectivitySum(_)
SubjectivitySum(ws) ==
    IF ws = <<>> THEN 0 ELSE WordSubjectivity(Head(ws)) + SubjectivitySum(Tail(ws))

TextBlob(text) ==
    LET ws == Words(text)
    IN  IF ws = <<>>
        THEN [polarity |-> 0, subjectivity |-> 0]
        ELSE [polarity     |-> PolaritySum(ws) \div Len(ws),
              subjectivity |-> SubjectivitySum(ws) \div Len(ws)]

(* Python's None where a text is expected *)
None == <<"None">>

(* mutant: the text is not stripped before it is tested *)
Mutant_analyze_sentiment_unstripped(text0) ==
    LET text == IF text0 = None THEN <<>> ELSE text0
    IN  IF text = <<>>
        THEN [blobs |-> <<>>, scores |-> [polarity |-> 0, subjectivity |-> 0]]
        ELSE [blobs |-> <<text>>, scores |-> TextBlob(text)]

(* the body of _analyze_sentiment: the scores it returns and the texts it
   builds a TextBlob of *)
_analyze_sentiment_run(text0) ==
    LET text == Strip(IF text0 = None THEN <<>> ELSE text0)
    IN  IF text = <<>>
        THEN [blobs |-> <<>>, scores |-> [polarity |-> 0, subjectivity |-> 0]]
        ELSE [blobs |-> <<text>>, scores |-> TextBlob(text)]

_analyze_sentiment(text0) == _analyze_sentiment_run(text0).scores

---------------------------------------------------------------------------
(* Cache *)

CacheKeys == {"news_all", "sentiment_all"}

(* mutant: an entry whose age equals the TTL is already expired *)
Mutant_get_cache_expires_early(c, key, t) ==
    IF key \notin DOMAIN c
    THEN [hit |-> FALSE, data |-> <<>>, cache |-> c]
    ELSE IF t - c[key].timestamp >= CACHE_TTL
         THEN [hit |-> FALSE, data |-> <<>>,
               cache |-> [k \in (DOMAIN c) \ {key} |-> c[k]]]
         ELSE [hit |-> TRUE, data |-> c[key].data, cache |-> c]

(* mutant: an expired entry is reported as a miss but left in the cache *)
Mutant_get_cache_keeps_expired(c, key, t) ==
    IF key \notin DOMAIN c
    THEN [hit |-> FALSE, data |-> <<>>, cache |-> c]
    ELSE IF t - c[key].timestamp > CACHE_TTL
         THEN [hit |-> FALSE, data |-> <<>>, cache |-> c]
         ELSE [hit |-> TRUE, data |-> c[key].data, cache |-> c]

(* _get_cache: the value found (hit, data) and the cache it leaves *)
_get_cache(c, key, t) ==
    IF key \notin DOMAIN c
    THEN [hit |-> FALSE, data |-> <<>>, cache |-> c]
    ELSE IF t - c[key].timestamp > CACHE_TTL
         THEN [hit |-> FALSE, data |-> <<>>,
               cache |-> [k \in (DOMAIN c) \ {key} |-> c[k]]]
         ELSE [hit |-> TRUE, data |-> c[key].data, cache |-> c]

(* mutant: the list is added to the entry that is there *)
Mutant_set_cache_extends(c, key, data, t) ==
    [k \in (DOMAIN c) \cup {key} |->
        IF k = key
        THEN [data |-> (IF key \in DOMAIN c THEN c[key].data ELSE <<>>) \o data,
              timestamp |-> t]
        ELSE c[k]]

_set_cache(c, key, data, t) ==
    [k \in (DOMAIN c) \cup {key} |->
        IF k = key THEN [data |-> data, timestamp |-> t] ELSE c[k]]

---------------------------------------------------------------------------
(* Per-ticker fetch *)

(* _fetch_news_for_ticker, the cleaning of the items yfinance returned *)
CleanItem(ticker, item) ==
    [ticker    |-> ticker,
     title     |-> item.title,
     summary   |-> IF item.summary # <<>> THEN item.summary ELSE item.description,
     publisher |-> item.publisher,
     link      |-> item.link]

_fetch_news_for_ticker(ticker, news_items) ==
    [i \in 1..Len(news_items) |-> CleanItem(ticker, news_items[i])]

---------------------------------------------------------------------------
(* Recommendation *)

(* mutant: the thresholds compared strictly *)
Mutant_recommendation_strict(score) ==
    IF score.num > BUY_THRESHOLD * score.den THEN "Buy"
    ELSE IF score.num < SELL_THRESHOLD * score.den THEN "Sell"
    ELSE "Hold"

_recommendation_from_score(score) ==
    IF score.num >= BUY_THRESHOLD * score.den THEN "Buy"
    ELSE IF score.num <= SELL_THRESHOLD * score.den THEN "Sell"
    ELSE "Hold"

Mean(scores) == [num |-> SeqSum(scores), den |-> Len(scores)]

(* mcp_integration.get_technical_indicators / get_fundamental_snapshot: the
   snapshot found for the ticker, or the empty dict when the lookup fails or
   finds too little; both catch every exception *)
get_technical_indicators(ticker) ==
    IF market[ticker].technical = "data"
    THEN [found |-> TRUE, rsi |-> market[ticker].rsi]
    ELSE [found |-> FALSE, rsi |-> 0]

get_fundamental_snapshot(ticker) ==
    IF market[ticker].fundamental = "data"
    THEN [found |-> TRUE, trailingPE |-> market[ticker].trailingPE]
    ELSE [found |-> FALSE, trailingPE |-> 0]

(* mcp_integration.enhance_recommendation_with_mcp: both lookups go into
   factors as they come *)
enhance_recommendation_with_mcp(ticker, sentiment_score, base_recommendation) ==
    LET technicals == get_technical_indicators(ticker)
        fundamentals == get_fundamental_snapshot(ticker)
    IN  [ticker         |-> ticker,
         recommendation |-> base_recommendation,
         confidence     |-> BASE_CONFIDENCE,
         factors        |-> [sentiment   |-> sentiment_score,
                             technical   |-> technicals,
                             fundamental |-> fundamentals]]

(* mutant: the lookups are made and nudge the confidence *)
Mutant_enhance_lookups_enabled(ticker, sentiment_score, base_rec) ==
    LET technicals == get_technical_indicators(ticker)
        fundamentals == get_fundamental_snapshot(ticker)
        c1 == IF technicals.found /\ technicals.rsi < 30 THEN BASE_CONFIDENCE + 10
              ELSE IF technicals.found /\ technicals.rsi > 70 THEN BASE_CONFIDENCE - 10
              ELSE BASE_CONFIDENCE
        c2 == IF fundamentals.found /\ fundamentals.trailingPE > 0
                                    /\ fundamentals.trailingPE < 20
              THEN c1 + 10 ELSE c1
    IN  [ticker         |-> ticker,
         avg_polarity   |-> sentiment_score,
         recommendation |-> base_rec,
         confidence     |-> Max2(MIN_CONFIDENCE, Min2(MAX_CONFIDENCE, c2)),
         factors        |-> [k \in {"sentiment"} |-> sentiment_score]]

(* mutant: the technical lookup is made and the override reads its RSI *)
Mutant_enhance_override_enabled(ticker, sentiment_score, base_rec) ==
    LET technicals == get_technical_indicators(ticker)
        hasRsi == technicals.found /\ technicals.rsi # 0
        upgrade == hasRsi /\ technicals.rsi < 30 /\ base_rec = "Hold"
        downgrade == hasRsi /\ technicals.rsi > 70 /\ base_rec = "Buy"
    IN  [ticker         |-> ticker,
         avg_polarity   |-> sentiment_score,
         recommendation |-> IF upgrade THEN "Buy"
                            ELSE IF downgrade THEN "Hold" ELSE base_rec,
         confidence     |-> BASE_CONFIDENCE,
         factors        |-> [k \in {"sentiment"} |-> sentiment_score]]

(* mutant: the lookups are made and what they find is put among the factors *)
Mutant_enhance_factors_from_lookups(ticker, sentiment_score, base_rec) ==
    LET technicals == get_technical_indicators(ticker)
        fundamentals == get_fundamental_snapshot(ticker)
        keys == {"sentiment"}
                \cup (IF technicals.found THEN {"technical"} ELSE {})
                \cup (IF fundamentals.found THEN {"fundamental"} ELSE {})
    IN  [ticker         |-> ticker,
         avg_polarity   |-> sentiment_score,
         recommendation |-> base_rec,
         confidence     |-> BASE_CONFIDENCE,
         factors        |-> [k \in keys |->
                                IF k = "sentiment" THEN sentiment_score
                                ELSE IF k = "technical" THEN technicals.rsi
                                ELSE fundamentals.trailingPE]]

(* mutant: round(confidence) without the number of digits rounds 0.5 to 0 *)
Mutant_enhance_round_units(ticker, sentiment_score, base_rec) ==
    LET c == Max2(MIN_CONFIDENCE, Min2(MAX_CONFIDENCE, BASE_CONFIDENCE))
        q == c \div 100
        r == c % 100
        rounded == IF r > 50 \/ (r = 50 /\ q % 2 = 1) THEN (q + 1) * 100 ELSE q * 100
    IN  [ticker         |-> ticker,
         avg_polarity   |-> sentiment_score,
         recommendation |-> base_rec,
         confidence     |-> rounded,
         factors        |-> [k \in {"sentiment"} |-> sentiment_score]]

_enhance_recommendation_with_mcp(ticker, sentiment_score, base_rec) ==
    LET factors == [k \in {"sentiment"} |-> sentiment_score]
        confidence0 == BASE_CONFIDENCE
        hasRsi == "technical" \in DOMAIN factors /\ factors["technical"].rsi # 0
        rsi == IF hasRsi THEN factors["technical"].rsi ELSE 0
        upgrade == hasRsi /\ rsi < 30 /\ base_rec = "Hold"
        downgrade == hasRsi /\ ~upgrade /\ rsi > 70 /\ base_rec = "Buy"
        final_rec == IF upgrade THEN "Buy" ELSE IF downgrade THEN "Hold" ELSE base_rec
        confidence1 == IF upgrade THEN confidence0 + 10
                       ELSE IF downgrade THEN confidence0 - 10
                       ELSE confidence0
        confidence == Max2(MIN_CONFIDENCE, Min2(MAX_CONFIDENCE, confidence1))
    IN  [ticker         |-> ticker,
         avg_polarity   |-> sentiment_score,
         recommendation |-> final_rec,
         confidence     |-> confidence,
         factors        |-> factors]

(* sentiment(), lines 184-200: the scoring of one news item *)
SentimentRecord(n) ==
    LET combined_text == Strip(n.title \o <<SP>> \o n.summary)
        scores == _analyze_sentiment(combined_text)
    IN  [ticker       |-> n.ticker,
         title        |-> n.title,
         summary      |-> IF n.summary # <<>> THEN n.summary ELSE n.title,
         polarity     |-> scores.polarity,
         subjectivity |-> scores.subjectivity]

SentimentOf(items) == [i \in 1..Len(items) |-> SentimentRecord(items[i])]

(* by_ticker.setdefault(t, []).append(p): a dict keeps its keys in the order
   of their first insertion *)
RECURSIVE GroupByTicker(_, _)
GroupByTicker(sentiments, acc) ==
    IF sentiments = <<>> THEN acc
    ELSE LET item == Head(sentiments)
             at == {i \in 1..Len(acc) : acc[i].ticker = item.ticker}
         IN  GroupByTicker(Tail(sentiments),
                IF at = {}
                THEN Append(acc, [ticker |-> item.ticker, scores |-> <<item.polarity>>])
                ELSE [acc EXCEPT ![CHOOSE i \in at : TRUE].scores =
                                      Append(@, item.polarity)])

(* mutant: the sum of the scores is not divided by their number *)
Mutant_RowOf_sum(entry) ==
    LET avg_sentiment == [num |-> SeqSum(entry.scores), den |-> 1]
        base_rec == _recommendation_from_score(avg_sentiment)
        enhanced == _enhance_recommendation_with_mcp(entry.ticker, avg_sentiment, base_rec)
    IN  [ticker         |-> enhanced.ticker,
         avg_polarity   |-> enhanced.avg_polarity,
         recommendation |-> enhanced.recommendation,
         confidence     |-> enhanced.confidence,
         factors        |-> enhanced.factors,
         news_count     |-> Len(entry.scores)]

(* recommendations(), lines 222-235: one row per key of by_ticker *)
RowOf(entry) ==
    LET avg_sentiment == Mean(entry.scores)
        base_rec == _recommendation_from_score(avg_sentiment)
        enhanced == _enhance_recommendation_with_mcp(entry.ticker, avg_sentiment, base_rec)
    IN  [ticker         |-> enhanced.ticker,
         avg_polarity   |-> enhanced.avg_polarity,
         recommendation |-> enhanced.recommendation,
         confidence     |-> enhanced.confidence,
         factors        |-> enhanced.factors,
         news_count     |-> Len(entry.scores)]

(* mutant: the rows are returned in the order of by_ticker *)
Mutant_StableOrder_skipped(output, tickers) == output

(* recommendations(), lines 237-245: the rows in the order of TICKERS *)
RECURSIVE StableOrder(_, _)
StableOrder(output, tickers) ==
    IF tickers = <<>> THEN <<>>
    ELSE LET at == {i \in 1..Len(output) : output[i].ticker = Head(tickers)}
         IN  (IF at = {} THEN <<>>
              ELSE <<output[CHOOSE i \in at : \A j \in at : j <= i]>>)
             \o StableOrder(output, Tail(tickers))

(* mutant: by_ticker starts with every ticker of the universe and rows are
   built also for the tickers without scores *)
Mutant_RecommendOf_all_tickers(sentiments) ==
    IF sentiments = <<>> THEN <<>>
    ELSE LET seeded == [i \in 1..Len(TICKERS) |-> [ticker |-> TICKERS[i], scores |-> <<>>]]
             by_ticker == GroupByTicker(sentiments, seeded)
         IN  StableOrder([i \in 1..Len(by_ticker) |-> RowOf(by_ticker[i])], TICKERS)

RecommendOf(sentiments) ==
    IF sentiments = <<>> THEN <<>>
    ELSE LET by_ticker == GroupByTicker(sentiments, <<>>)
             kept == SelectSeq(by_ticker, LAMBDA e : e.scores # <<>>)
             output == [i \in 1..Len(kept) |-> RowOf(kept[i])]
         IN  StableOrder(output, TICKERS)


---------------------------------------------------------------------------
(* Report runner *)

(* round(avg, 3): the average in thousandths, ties to even *)
Round3(score) ==
    LET n == 10 * score.num
        q == n \div score.den
        r == n % score.den
    IN  IF 2 * r > score.den THEN q + 1
        ELSE IF 2 * r = score.den THEN (IF q % 2 = 0 THEN q ELSE q + 1)
        ELSE q

(* generate_recommendations(), lines 46-63: items with no text are skipped *)
PerArticle(all) ==
    LET withText == SelectSeq(all,
            LAMBDA item : Strip(item.title \o <<SP>> \o item.summary) # <<>>)
    IN  [i \in 1..Len(withText) |->
            [ticker   |-> withText[i].ticker,
             polarity |-> _analyze_sentiment(
                 Strip(withText[i].title \o <<SP>> \o withText[i].summary)).polarity]]

RECURSIVE ReportRows(_, _)
ReportRows(by_ticker, tickers) ==
    IF tickers = <<>> THEN <<>>
    ELSE LET at == {i \in 1..Len(by_ticker) : by_ticker[i].ticker = Head(tickers)}
             scores == IF at = {} THEN <<>> ELSE by_ticker[CHOOSE i \in at : TRUE].scores
         IN  (IF scores = <<>> THEN <<>>
              ELSE << [ticker         |-> Head(tickers),
                       avg_polarity   |-> Round3(Mean(scores)),
                       recommendation |-> _recommendation_from_score(Mean(scores)),
                       news_count     |-> Len(scores)] >>)
             \o ReportRows(by_ticker, Tail(tickers))

(* generate_recommendations(), given the tickers whose fetch failed *)
generate_recommendations(failed) ==
    LET fetched == [i \in 1..Len(TICKERS) |->
                       IF TICKERS[i] \in failed THEN <<>>
                       ELSE _fetch_news_for_ticker(TICKERS[i], upstream[TICKERS[i]])]
        all == Concat(fetched)
    IN  IF all = <<>> THEN <<>>
        ELSE ReportRows(GroupByTicker(PerArticle(all), <<>>), TICKERS)

---------------------------------------------------------------------------
(* compare_stocks: the sentiment part of each comparison entry *)

CompareEntry(ticker, sentiments) ==
    LET ticker_sentiments == SelectSeq(sentiments, LAMBDA s : s.ticker = ticker)
        polarities == [i \in 1..Len(ticker_sentiments) |-> ticker_sentiments[i].polarity]
        avg_polarity == IF polarities # <<>> THEN Mean(polarities)
                        ELSE [num |-> 0, den |-> 1]
    IN  [ticker    |-> ticker,
         market    |-> IF ticker \in Range(INDIAN_TICKERS) THEN "Indian" ELSE "US",
         sentiment |-> [avg_polarity   |-> avg_polarity,
                        news_count     |-> Len(ticker_sentiments),
                        recommendation |-> _recommendation_from_score(avg_polarity)]]

CompareOf(ticker_list, sentiments) ==
    [tickers    |-> ticker_list,
     comparison |-> [i \in 1..Len(ticker_list) |-> CompareEntry(ticker_list[i], sentiments)]]

(* the 400 responses of compare_stocks, lines 443-461 *)
CompareRejects(ticker_list) ==
    \/ \E i \in 1..Len(ticker_list) : ticker_list[i] \notin Range(TICKERS)
    \/ Len(ticker_list) > 5
    \/ Len(ticker_list) < 2

---------------------------------------------------------------------------
(* Inputs *)

Text(w) == <<w>>
NoText == <<>>

RawItem(title, summary, description) ==
    [title |-> title, summary |-> summary, description |-> description,
     publisher |-> "Reuters", link |-> "https://example.com/a"]

ItemUp == RawItem(Text("up"), NoText, NoText)
ItemDip == RawItem(NoText, NoText, Text("dip"))
ItemMixed == RawItem(Text("up"), Text("dip"), NoText)
ItemBlank == RawItem(NoText, Text(SP), NoText)

(* what yfinance may hold for one ticker *)
SampleFeeds == { <<>>, <<ItemUp>>, <<ItemDip>>, <<ItemMixed, ItemBlank>> }

CompareInputs == { <<"AAPL", "TCS.NS">>, <<"MSFT", "AAPL">>, <<"AAPL">>, <<"AAPL", "IBM">> }

(* the instants at which requests arrive after the first: when an entry
   written at 0 is exactly at the end of its window, and just after *)
Instants == {CACHE_TTL, CACHE_TTL + 1}

---------------------------------------------------------------------------
(* State machine of the API process *)

Tickers == Range(TICKERS)

(* no lookup finds anything *)
NoLookup == [technical |-> "none", rsi |-> 0, fundamental |-> "none", trailingPE |-> 0]
NoMarket == [t \in Tickers |-> NoLookup]

(* the lookups would find an oversold and cheap stock for every ticker but
   the second, and an overbought one for that *)
LiveMarket ==
    [t \in Tickers |->
        IF t = TICKERS[2]
        THEN [technical |-> "data", rsi |-> 75, fundamental |-> "data", trailingPE |-> 30]
        ELSE [technical |-> "data", rsi |-> 20, fundamental |-> "data", trailingPE |-> 10]]

(* no executor *)
NoPool == [phase |-> "idle", submitted |-> 0, queued |-> 0, running |-> 0, done |-> 0]

(* no request thread has been started *)
Threads == {1, 2}
NoRequest == [kind |-> "none", items |-> <<>>]
Idle == [pc |-> "idle", data |-> <<>>, timestamp |-> 0, fut |-> [t \in Tickers |-> "none"],
         all_news |-> <<>>, ret |-> NoRequest]
NoThreads == [i \in Threads |-> Idle]

NoCache == [k \in {} |-> <<>>]
NoFutures == [t \in Tickers |-> "none"]
NoResponse == [none |-> TRUE]

Init ==
    /\ upstream \in [Tickers -> SampleFeeds]
    /\ now = 0
    /\ cache = NoCache
    /\ pc = "idle"
    /\ call = "none"
    /\ args = <<>>
    /\ fut = NoFutures
    /\ all_news = <<>>
    /\ ret = NoResponse
    /\ env = [INDIAN_STOCK_API_KEY |-> "secret", NEWSAPI_AI_KEY |-> "secret"]
    /\ ad_pc = "idle"
    /\ ad_call = NoResponse
    /\ ad_sent = <<>>
    /\ ad_recv = <<>>
    /\ ad_ret = NoResponse
    /\ market = LiveMarket
    /\ fn = NoResponse
    /\ pool = NoPool
    /\ threads = NoThreads

(* what the caller of sentiment() makes of its result *)
Respond(endpoint, argv, sentiments) ==
    CASE endpoint = "sentiment"       -> [records |-> sentiments]
      [] endpoint = "recommendations" -> [rows |-> RecommendOf(sentiments)]
      [] endpoint = "compare"         -> CompareOf(argv, sentiments)

(* the rest of the call once news() has returned `items`, with cache c *)
Finish(endpoint, argv, items, c, t) ==
    IF endpoint = "news"
    THEN [cache |-> c, ret |-> [items |-> items]]
    ELSE LET results == SentimentOf(items)
         IN  [cache |-> _set_cache(c, "sentiment_all", results, t),
              ret   |-> Respond(endpoint, argv, results)]

(* executor.submit for every ticker: a worker thread per task up to
   max_workers, the other tasks wait in the queue *)
Submit == [t \in Tickers |->
             IF (CHOOSE i \in 1..Len(TICKERS) : TICKERS[i] = t) <= MAX_WORKERS
             THEN "running" ELSE "queued"]

(* a worker that has finished takes the next queued task *)
Dequeue(f) ==
    LET queued == {i \in 1..Len(TICKERS) : f[TICKERS[i]] = "queued"}
    IN  IF queued = {} THEN f
        ELSE [f EXCEPT ![TICKERS[CHOOSE i \in queued : \A j \in queued : i <= j]] = "running"]

(* news() from its first line to the cache hit or the submission of the
   fetches, entered with cache c *)
EnterNews(endpoint, argv, c) ==
    LET r == _get_cache(c, "news_all", now)
    IN  IF r.hit
        THEN LET fin == Finish(endpoint, argv, r.data, r.cache, now)
             IN  /\ cache' = fin.cache
                 /\ ret' = fin.ret
                 /\ pc' = "done"
                 /\ UNCHANGED <<fut, all_news>>
        ELSE /\ cache' = r.cache
             /\ fut' = Submit
             /\ all_news' = <<>>
             /\ pc' = "fanout"
             /\ UNCHANGED ret

(* sentiment(), entered by the endpoint itself, recommendations() or
   compare_stocks() *)
EnterSentiment(endpoint, argv) ==
    LET r == _get_cache(cache, "sentiment_all", now)
    IN  IF r.hit
        THEN /\ cache' = r.cache
             /\ ret' = Respond(endpoint, argv, r.data)
             /\ pc' = "done"
             /\ UNCHANGED <<fut, all_news>>
        ELSE EnterNews(endpoint, argv, r.cache)

news ==
    /\ pc = "idle"
    /\ call' = "news"
    /\ args' = <<>>
    /\ EnterNews("news", <<>>, cache)
    /\ UNCHANGED <<upstream, now>>
    /\ UNCHANGED <<adVars, fnVars, pool, threads>>

sentiment ==
    /\ pc = "idle"
    /\ call' = "sentiment"
    /\ args' = <<>>
    /\ EnterSentiment("sentiment", <<>>)
    /\ UNCHANGED <<upstream, now>>
    /\ UNCHANGED <<adVars, fnVars, pool, threads>>

recommendations ==
    /\ pc = "idle"
    /\ call' = "recommendations"
    /\ args' = <<>>
    /\ EnterSentiment("recommendations", <<>>)
    /\ UNCHANGED <<upstream, now>>
    /\ UNCHANGED <<adVars, fnVars, pool, threads>>

compare_stocks ==
    /\ pc = "idle"
    /\ \E ticker_list \in CompareInputs :
        /\ call' = "compare"
        /\ args' = ticker_list
        /\ IF CompareRejects(ticker_list)
           THEN /\ ret' = [status_code |-> 400]
                /\ pc' = "done"
                /\ UNCHANGED <<cache, fut, all_news>>
           ELSE EnterSentiment("compare", ticker_list)
    /\ UNCHANGED <<upstream, now>>
    /\ UNCHANGED <<adVars, fnVars, pool, threads>>

(* a fetch returns its cleaned items and the loop of news() extends all_news *)
FetchReturns(t) ==
    /\ pc = "fanout"
    /\ fut[t] = "running"
    /\ fut' = Dequeue([fut EXCEPT ![t] = "ok"])
    /\ all_news' = all_news \o _fetch_news_for_ticker(t, upstream[t])
    /\ UNCHANGED <<upstream, now, cache, pc, call, args, ret>>
    /\ UNCHANGED <<adVars, fnVars, pool, threads>>

(* an exception inside _fetch_news_for_ticker: caught there, [] returned *)
FetchCaught(t) ==
    /\ pc = "fanout"
    /\ fut[t] = "running"
    /\ fut' = Dequeue([fut EXCEPT ![t] = "failed"])
    /\ all_news' = all_news \o <<>>
    /\ UNCHANGED <<upstream, now, cache, pc, call, args, ret>>
    /\ UNCHANGED <<adVars, fnVars, pool, threads>>

(* mutant: the exception of future.result() is not caught and ends news() *)
Mutant_FetchRaised_aborts(t) ==
    /\ pc = "fanout"
    /\ fut[t] = "running"
    /\ fut' = [fut EXCEPT ![t] = "failed"]
    /\ pc' = "done"
    /\ ret' = [items |-> <<>>]
    /\ UNCHANGED <<upstream, now, cache, call, args, all_news>>
    /\ UNCHANGED <<adVars, fnVars, pool, threads>>

(* future.result() raises: caught in the loop of news(), which continues *)
FetchRaised(t) ==
    /\ pc = "fanout"
    /\ fut[t] = "running"
    /\ fut' = Dequeue([fut EXCEPT ![t] = "failed"])
    /\ UNCHANGED <<upstream, now, cache, pc, call, args, ret, all_news>>
    /\ UNCHANGED <<adVars, fnVars, pool, threads>>

(* the provider never answers: the future never completes *)
FetchHangs(t) ==
    /\ pc = "fanout"
    /\ fut[t] = "running"
    /\ fut' = [fut EXCEPT ![t] = "hung"]
    /\ UNCHANGED <<upstream, now, cache, pc, call, args, ret, all_news>>
    /\ UNCHANGED <<adVars, fnVars, pool, threads>>

(* as_completed is exhausted and the executor is shut down: news() writes
   the cache and returns, and its caller goes on *)
NewsJoin ==
    /\ pc = "fanout"
    /\ \A t \in Tickers : fut[t] \in {"ok", "failed"}
    /\ LET fin == Finish(call, args, all_news,
                         _set_cache(cache, "news_all", all_news, now), now)
       IN  /\ cache' = fin.cache
           /\ ret' = fin.ret
    /\ pc' = "done"
    /\ UNCHANGED <<upstream, now, call, args, fut, all_news>>
    /\ UNCHANGED <<adVars, fnVars, pool, threads>>

(* the report script: every ticker fetched in turn, some fetches failing *)
RunReport ==
    /\ pc = "idle"
    /\ \E failed \in SUBSET Tickers :
        /\ fut' = [t \in Tickers |-> IF t \in failed THEN "failed" ELSE "ok"]
        /\ ret' = [csv_rows |-> generate_recommendations(failed)]
    /\ call' = "report"
    /\ pc' = "done"
    /\ UNCHANGED <<upstream, now, cache, args, all_news>>
    /\ UNCHANGED <<adVars, fnVars, pool, threads>>

(* the response is sent *)
Deliver ==
    /\ pc = "done"
    /\ pc' = "idle"
    /\ call' = "none"
    /\ args' = <<>>
    /\ fut' = NoFutures
    /\ all_news' = <<>>
    /\ ret' = NoResponse
    /\ UNCHANGED <<upstream, now, cache>>
    /\ UNCHANGED <<adVars, fnVars, pool, threads>>

Tick ==
    /\ pc = "idle"
    /\ \E t \in Instants :
        /\ now < t
        /\ t <= MaxTime
        /\ now' = t
    /\ UNCHANGED <<upstream, cache, pc, call, args, fut, all_news, ret>>
    /\ UNCHANGED <<adVars, fnVars, pool, threads>>

Next ==
    \/ news
    \/ sentiment
    \/ recommendations
    \/ compare_stocks
    \/ RunReport
    \/ \E t \in Tickers : FetchReturns(t)
    \/ \E t \in Tickers : FetchCaught(t)
    \/ \E t \in Tickers : FetchRaised(t)
    \/ \E t \in Tickers : FetchHangs(t)
    \/ NewsJoin
    \/ Deliver
    \/ Tick

Spec == Init /\ [][Next]_vars


---------------------------------------------------------------------------
(* JSON values and the Python operations on them *)

JNull == [t |-> "null"]
JStr(x) == [t |-> "str", s |-> x]
JNum(x) == [t |-> "num", n |-> x]
JArr(x) == [t |-> "arr", a |-> x]
JObj(x) == [t |-> "obj", o |-> x]

EmptyObj == JObj([k \in {} |-> JNull])
EmptyList == JArr(<<>>)

IsDict(v) == v.t = "obj"
IsList(v) == v.t = "arr"

(* bool(v) *)
Truthy(v) ==
    CASE v.t = "null" -> FALSE
      [] v.t = "str"  -> v.s # ""
      [] v.t = "num"  -> v.n # 0
      [] v.t = "arr"  -> v.a # <<>>
      [] v.t = "obj"  -> DOMAIN v.o # {}

(* d.get(key, default), d a dict *)
Get(d, key, default) == IF key \in DOMAIN d.o THEN d.o[key] ELSE default

(* a or b or ...: the first truthy operand, else the last one *)
RECURSIVE FirstTruthy(_)
FirstTruthy(vs) ==
    IF Len(vs) = 1 \/ Truthy(Head(vs)) THEN Head(vs) ELSE FirstTruthy(Tail(vs))

(* whether `for x in v` can run; a number is not iterable *)
Iterable(v) == v.t \in {"arr", "obj", "str"}

(* the elements `for x in v` visits that are dicts: a list gives its
   elements, a dict its keys and a string its characters, which are
   strings *)
DictsIn(v) == IF v.t = "arr" THEN SelectSeq(v.a, IsDict) ELSE <<>>

Ok(value) == [ok |-> TRUE, value |-> value]
Raise(exception) == [ok |-> FALSE, exception |-> exception]

---------------------------------------------------------------------------
(* IndianStockAPI *)

(* ticker.replace(".NS", "").replace(".BO", "") *)
CleanTicker(ticker) ==
    CASE ticker = "TCS.NS"      -> "TCS"
      [] ticker = "RELIANCE.BO" -> "RELIANCE"
      [] OTHER                  -> ticker

(* mutant: the symbol is read from the item when the provider sends one *)
Mutant_ParseNewsItem_ticker_from_payload(item, ticker) ==
    [ticker    |-> IF "ticker" \in DOMAIN item.o /\ item.o["ticker"].t = "str"
                   THEN item.o["ticker"].s ELSE ticker,
     title     |-> Get(item, "title", Get(item, "headline", JStr(""))),
     summary   |-> Get(item, "summary",
                       Get(item, "description", Get(item, "content", JStr("")))),
     publisher |-> Get(item, "source", Get(item, "publisher", JStr(""))),
     link      |-> Get(item, "url", Get(item, "link", JStr("")))]

(* _parse_news, lines 179-188: one cleaned item *)
ParseNewsItem(item, ticker) ==
    [ticker    |-> ticker,
     title     |-> Get(item, "title", Get(item, "headline", JStr(""))),
     summary   |-> Get(item, "summary",
                       Get(item, "description", Get(item, "content", JStr("")))),
     publisher |-> IF IsDict(Get(item, "source", JNull))
                   THEN Get(Get(item, "source", EmptyObj), "name", JStr(""))
                   ELSE Get(item, "source",
                            Get(item, "publisher", Get(item, "author", JStr("")))),
     link      |-> Get(item, "url", Get(item, "link", Get(item, "webUrl", JStr(""))))]

(* _parse_news: api_response.get is evaluated before the test for a list *)
_parse_news(api_response, ticker) ==
    IF ~IsDict(api_response) THEN Raise("AttributeError")
    ELSE LET news_items == FirstTruthy(<<Get(api_response, "data", EmptyList),
                                         Get(api_response, "articles", EmptyList),
                                         Get(api_response, "news", EmptyList),
                                         Get(api_response, "results", EmptyList),
                                         EmptyList>>)
         IN  IF ~Iterable(news_items) THEN Raise("TypeError")
             ELSE LET dicts == DictsIn(news_items)
                  IN  Ok([i \in 1..Len(dicts) |-> ParseNewsItem(dicts[i], ticker)])

(* float(x): a number, or a string that spells one; anything else raises
   ValueError or TypeError *)
FloatOk(v) == v.t = "num" \/ (v.t = "str" /\ v.s \in {"100.5", "101.0"})
Float(v) ==
    IF v.t = "num" THEN v.n
    ELSE CASE v.s = "100.5" -> 10050
           [] v.s = "101.0" -> 10100

(* str(x) *)
Str(v) ==
    CASE v.t = "str"  -> v.s
      [] v.t = "num"  -> ToString(v.n)
      [] v.t = "null" -> "None"
      [] v.t = "arr"  -> "[...]"
      [] v.t = "obj"  -> "{...}"

(* the try block of _parse_price_history: the date is appended before the
   price is converted *)
RECURSIVE AppendPoints(_, _)
AppendPoints(points, acc) ==
    IF points = <<>> THEN acc
    ELSE LET pt == Head(points)
             dates == Append(acc.dates, Str(pt.date))
         IN  AppendPoints(Tail(points),
                IF FloatOk(pt.close)
                THEN [dates |-> dates, closes |-> Append(acc.closes, Float(pt.close))]
                ELSE [dates |-> dates, closes |-> acc.closes])

NoPoints == [dates |-> <<>>, closes |-> <<>>]

(* _parse_price_history, lines 212-222: the dataset structure *)
DatasetPoints(values) ==
    LET pairs == IF values.t = "arr"
                 THEN SelectSeq(values.a, LAMBDA e : IsList(e) /\ Len(e.a) >= 2)
                 ELSE <<>>
    IN  [i \in 1..Len(pairs) |-> [date |-> pairs[i].a[1], close |-> pairs[i].a[2]]]

(* _parse_price_history, lines 224-249: the flat structure *)
FlatPoints(prices) ==
    LET dicts == DictsIn(prices)
        date_str(item) == FirstTruthy(<<Get(item, "date", JNull),
                                        Get(item, "timestamp", JNull),
                                        Get(item, "time", JNull),
                                        Get(item, "datetime", JNull)>>)
        close_price(item) == FirstTruthy(<<Get(item, "close", JNull),
                                           Get(item, "closePrice", JNull),
                                           Get(item, "c", JNull),
                                           Get(item, "price", JNull)>>)
        usable == SelectSeq(dicts,
                     LAMBDA item : Truthy(date_str(item)) /\ Truthy(close_price(item)))
    IN  [i \in 1..Len(usable) |->
            [date |-> date_str(usable[i]), close |-> close_price(usable[i])]]

(* a parser that looks under `datasets` before the flat keys *)
Mutant_parse_price_history_datasets_first(api_response) ==
    IF ~IsDict(api_response) THEN Raise("AttributeError")
    ELSE LET prices == FirstTruthy(<<Get(api_response, "datasets", EmptyList),
                                     Get(api_response, "data", EmptyList),
                                     Get(api_response, "prices", EmptyList),
                                     Get(api_response, "history", EmptyList),
                                     Get(api_response, "candles", EmptyList),
                                     EmptyList>>)
             isDataset == /\ Truthy(prices)
                          /\ IsList(prices)
                          /\ IsDict(prices.a[1])
                          /\ Truthy(Get(prices.a[1], "values", JNull))
         IN  IF isDataset
             THEN Ok(AppendPoints(DatasetPoints(Get(prices.a[1], "values", EmptyList)),
                                  NoPoints))
             ELSE Ok(AppendPoints(FlatPoints(prices), NoPoints))

_parse_price_history(api_response) ==
    IF ~IsDict(api_response) THEN Raise("AttributeError")
    ELSE LET prices == FirstTruthy(<<Get(api_response, "data", EmptyList),
                                     Get(api_response, "prices", EmptyList),
                                     Get(api_response, "history", EmptyList),
                                     Get(api_response, "candles", EmptyList),
                                     Get(api_response, "datasets", EmptyList),
                                     EmptyList>>)
             isDataset == /\ Truthy(prices)
                          /\ IsList(prices)
                          /\ IsDict(prices.a[1])
                          /\ Truthy(Get(prices.a[1], "values", JNull))
         IN  IF isDataset
             THEN LET values == Get(prices.a[1], "values", EmptyList)
                  IN  IF ~Iterable(values) THEN Raise("TypeError")
                      ELSE Ok(AppendPoints(DatasetPoints(values), NoPoints))
             ELSE IF ~Iterable(prices) THEN Raise("TypeError")
                  ELSE Ok(AppendPoints(FlatPoints(prices), NoPoints))

AdapterMethods == {"fetch_news", "fetch_price_history", "fetch_current_price"}

(* the endpoint a method requests *)
EndpointOf(method) ==
    CASE method = "fetch_news"          -> "/news"
      [] method = "fetch_price_history" -> "/historical_data"
      [] method = "fetch_current_price" -> "/stock"

(* the value a method returns when it has no data *)
EmptyResult(method) ==
    CASE method = "fetch_news"          -> [news |-> <<>>]
      [] method = "fetch_price_history" -> [history |-> NoPoints]
      [] method = "fetch_current_price" -> [price |-> EmptyObj]
      [] method = "search_news_for_query" -> [news |-> <<>>]

(* what a method makes of the body of a 200 response *)
ParseBody(method, body, ticker) ==
    CASE method = "fetch_news" ->
            LET r == _parse_news(body, ticker)
            IN  IF r.ok THEN Ok([news |-> r.value]) ELSE r
      [] method = "fetch_price_history" ->
            LET r == _parse_price_history(body)
            IN  IF r.ok THEN Ok([history |-> r.value]) ELSE r
      [] method = "fetch_current_price" -> Ok([price |-> body])

---------------------------------------------------------------------------
(* newsapi_client *)

(* search_news_for_query, lines 79-90: one cleaned item *)
SearchItem(item, query) ==
    [ticker    |-> query,
     title     |-> FirstTruthy(<<Get(item, "title", JStr("")),
                                 Get(item, "headline", JStr(""))>>),
     summary   |-> Get(item, "description", Get(item, "summary", JStr(""))),
     publisher |-> IF IsDict(Get(item, "source", JNull))
                   THEN Get(Get(item, "source", EmptyObj), "name", JStr(""))
                   ELSE Get(item, "source", Get(item, "publisher", JStr(""))),
     link      |-> Get(item, "url", Get(item, "link", JStr("")))]

(* search_news_for_query, lines 65-93: what follows the try block *)
SearchParse(data, query) ==
    IF ~IsDict(data) THEN Raise("AttributeError")
    ELSE LET articles_container == Get(data, "articles", EmptyObj)
         IN  IF ~IsDict(articles_container) THEN Raise("AttributeError")
             ELSE LET articles ==
                        FirstTruthy(<<Get(articles_container, "results", EmptyList),
                                      Get(data, "results", EmptyList),
                                      Get(data, "articles", EmptyList),
                                      EmptyList>>)
                  IN  IF ~Iterable(articles) THEN Raise("TypeError")
                      ELSE LET dicts == DictsIn(articles)
                           IN  Ok([news |-> [i \in 1..Len(dicts) |->
                                                SearchItem(dicts[i], query)]])

---------------------------------------------------------------------------
(* The provider's answers *)

NItemFull ==
    JObj("title" :> JStr("T1") @@ "summary" :> JStr("S1")
         @@ "source" :> JObj("name" :> JStr("ET")) @@ "url" :> JStr("u1"))
NItemAlt ==
    JObj("headline" :> JStr("H2") @@ "description" :> JStr("D2")
         @@ "author" :> JStr("A2") @@ "link" :> JStr("l2")
         @@ "ticker" :> JStr("INFY"))

(* an item whose title is JSON null *)
NItemNull ==
    JObj("title" :> JNull @@ "headline" :> JStr("H3") @@ "content" :> JStr("C3")
         @@ "source" :> JStr("PTI") @@ "webUrl" :> JStr("w3"))

NewsBodies ==
    { JObj("data" :> JArr(<<NItemFull>>)),
      JObj("news" :> JArr(<<NItemNull>>)),
      JObj("data" :> EmptyList @@ "articles" :> JArr(<<NItemAlt>>)
           @@ "news" :> JArr(<<NItemFull>>)),
      JObj("results" :> JArr(<<JStr("x"), EmptyObj>>)),
      JObj("articles" :> JObj("results" :> JArr(<<NItemAlt>>))),
      EmptyObj,
      JArr(<<NItemFull>>) }

DayOne == JStr("2024-01-01")
DayTwo == JStr("2024-01-02")

PriceBodies ==
    { JObj("datasets" :> JArr(<<JObj("values" :>
            JArr(<<JArr(<<DayOne, JNum(10050)>>), JArr(<<DayTwo, JStr("101.0")>>)>>))>>)),
      JObj("datasets" :> JArr(<<JObj("values" :>
            JArr(<<JArr(<<DayOne, JStr("n/a")>>), JArr(<<DayTwo, JNum(10100)>>)>>))>>)),
      JObj("data" :> JArr(<<JObj("date" :> DayOne @@ "close" :> JNum(10050))>>)
           @@ "datasets" :> JArr(<<JObj("values" :>
                JArr(<<JArr(<<DayTwo, JNum(10100)>>)>>))>>)),
      JObj("prices" :> JArr(<<JObj("timestamp" :> DayOne @@ "c" :> JStr("100.5")),
                              JObj("date" :> DayTwo),
                              JStr("x")>>)),
      EmptyObj }

QuoteBodies == { JObj("currentPrice" :> JNum(10050)), EmptyObj }

BodiesFor(method) ==
    CASE method = "fetch_price_history" -> PriceBodies
      [] method = "fetch_current_price" -> QuoteBodies
      [] OTHER                          -> NewsBodies

(* the outcome of one HTTP request: a response with a status and a JSON
   body, or a requests.exceptions.RequestException (connection failure,
   timeout) *)
Http(status, body) == [kind |-> "http", status |-> status, body |-> body]
NetworkFailure == [kind |-> "error", status |-> 0, body |-> JNull]
Rejections == {Http(401, JNull), Http(500, JNull)}
Outcomes(method) ==
    {NetworkFailure} \cup Rejections \cup {Http(200, b) : b \in BodiesFor(method)}
AllOutcomes ==
    {NetworkFailure} \cup Rejections
        \cup {Http(200, b) : b \in NewsBodies \cup PriceBodies \cup QuoteBodies}

---------------------------------------------------------------------------
(* A provider adapter call *)

AdapterTickers == {"TCS.NS", "RELIANCE.BO"}
Queries == {"TCS", ""}
Keys == {"", "secret"}

(* requests.get(endpoint, headers=..., params=...) and its retry with
   params={**self._get_auth_params(), **params} *)
Request(method, ticker, auth) ==
    [endpoint |-> EndpointOf(method), auth |-> auth, name |-> CleanTicker(ticker)]

(* requests.post(endpoint, json=payload): the key travels in the payload *)
SearchRequest(query) ==
    [endpoint |-> "/article/getArticles", auth |-> "payload", name |-> query]

AdInit ==
    /\ upstream = [t \in Tickers |-> <<>>]
    /\ now = 0
    /\ cache = NoCache
    /\ pc = "idle"
    /\ call = "none"
    /\ args = <<>>
    /\ fut = NoFutures
    /\ all_news = <<>>
    /\ ret = NoResponse
    /\ env \in [{"INDIAN_STOCK_API_KEY", "NEWSAPI_AI_KEY"} -> Keys]
    /\ ad_pc = "idle"
    /\ ad_call = NoResponse
    /\ ad_sent = <<>>
    /\ ad_recv = <<>>
    /\ ad_ret = NoResponse
    /\ market = NoMarket
    /\ fn = NoResponse
    /\ pool = NoPool
    /\ threads = NoThreads

(* the call ends: it returns a value or raises *)
Return(value) == ad_pc' = "returned" /\ ad_ret' = value
Raised(exception) == ad_pc' = "raised" /\ ad_ret' = [exception |-> exception]
Parsed(r) == IF r.ok THEN Return(r.value) ELSE Raised(r.exception)

(* IndianStockAPI().<method>(ticker): __init__ raises without a key,
   otherwise the method sends its header-authenticated request *)
IndianStockAPI(method, ticker) ==
    /\ ad_pc = "idle"
    /\ ad_call' = [method |-> method, arg |-> ticker]
    /\ ad_recv' = <<>>
    /\ IF env.INDIAN_STOCK_API_KEY = ""
       THEN Raised("ValueError") /\ ad_sent' = <<>>
       ELSE /\ ad_pc' = "first"
            /\ ad_sent' = <<Request(method, ticker, "header")>>
            /\ ad_ret' = NoResponse
    /\ UNCHANGED env
    /\ UNCHANGED <<apiVars, fnVars, pool, threads>>

(* the first requests.get comes back *)
FirstResponse(resp) ==
    /\ ad_pc = "first"
    /\ resp \in Outcomes(ad_call.method)
    /\ ad_recv' = Append(ad_recv, resp)
    /\ CASE resp.kind = "error" ->
              Return(EmptyResult(ad_call.method)) /\ UNCHANGED ad_sent
         [] resp.kind = "http" /\ resp.status = 200 ->
              Parsed(ParseBody(ad_call.method, resp.body, ad_call.arg))
              /\ UNCHANGED ad_sent
         [] OTHER ->
              /\ ad_pc' = "retry"
              /\ ad_sent' = Append(ad_sent,
                                   Request(ad_call.method, ad_call.arg, "query"))
              /\ UNCHANGED ad_ret
    /\ UNCHANGED <<env, ad_call>>
    /\ UNCHANGED <<apiVars, fnVars, pool, threads>>

(* a client that keeps retrying after the second rejection *)
Mutant_RetryResponse_again(resp) ==
    /\ ad_pc = "retry"
    /\ resp \in Outcomes(ad_call.method)
    /\ ad_recv' = Append(ad_recv, resp)
    /\ CASE resp.kind = "error" ->
              Return(EmptyResult(ad_call.method)) /\ UNCHANGED ad_sent
         [] resp.kind = "http" /\ resp.status = 200 ->
              Parsed(ParseBody(ad_call.method, resp.body, ad_call.arg))
              /\ UNCHANGED ad_sent
         [] OTHER ->
              IF Len(ad_sent) < 3
              THEN /\ ad_sent' = Append(ad_sent,
                                   Request(ad_call.method, ad_call.arg, "query"))
                   /\ UNCHANGED <<ad_pc, ad_ret>>
              ELSE Return(EmptyResult(ad_call.method)) /\ UNCHANGED ad_sent
    /\ UNCHANGED <<env, ad_call>>
    /\ UNCHANGED <<apiVars, fnVars, pool, threads>>

(* a client that lets a failure of the retry reach its caller *)
Mutant_RetryResponse_raises(resp) ==
    /\ ad_pc = "retry"
    /\ resp \in Outcomes(ad_call.method)
    /\ ad_recv' = Append(ad_recv, resp)
    /\ CASE resp.kind = "error" -> Raised("RequestException")
         [] resp.kind = "http" /\ resp.status = 200 ->
              Parsed(ParseBody(ad_call.method, resp.body, ad_call.arg))
         [] OTHER -> Return(EmptyResult(ad_call.method))
    /\ UNCHANGED <<env, ad_call, ad_sent>>
    /\ UNCHANGED <<apiVars, fnVars, pool, threads>>

(* the retry comes back *)
RetryResponse(resp) ==
    /\ ad_pc = "retry"
    /\ resp \in Outcomes(ad_call.method)
    /\ ad_recv' = Append(ad_recv, resp)
    /\ CASE resp.kind = "error" -> Return(EmptyResult(ad_call.method))
         [] resp.kind = "http" /\ resp.status = 200 ->
              Parsed(ParseBody(ad_call.method, resp.body, ad_call.arg))
         [] OTHER -> Return(EmptyResult(ad_call.method))
    /\ UNCHANGED <<env, ad_call, ad_sent>>
    /\ UNCHANGED <<apiVars, fnVars, pool, threads>>

(* search_news_for_query(query) up to its requests.post *)
search_news_for_query(query) ==
    /\ ad_pc = "idle"
    /\ ad_call' = [method |-> "search_news_for_query", arg |-> query]
    /\ ad_recv' = <<>>
    /\ IF query = "" \/ env.NEWSAPI_AI_KEY = ""
       THEN Return(EmptyResult("search_news_for_query")) /\ ad_sent' = <<>>
       ELSE /\ ad_pc' = "posted"
            /\ ad_sent' = <<SearchRequest(query)>>
            /\ ad_ret' = NoResponse
    /\ UNCHANGED env
    /\ UNCHANGED <<apiVars, fnVars, pool, threads>>

(* the requests.post comes back *)
SearchResponse(resp) ==
    /\ ad_pc = "posted"
    /\ resp \in Outcomes(ad_call.method)
    /\ ad_recv' = Append(ad_recv, resp)
    /\ CASE resp.kind = "error" -> Return(EmptyResult(ad_call.method))
         [] resp.kind = "http" /\ resp.status = 200 ->
              Parsed(SearchParse(resp.body, ad_call.arg))
         [] OTHER -> Return(EmptyResult(ad_call.method))
    /\ UNCHANGED <<env, ad_call, ad_sent>>
    /\ UNCHANGED <<apiVars, fnVars, pool, threads>>

(* _fetch_news_for_ticker(ticker) called on its own: yfinance answers with a
   feed, or fails and the except clause returns [] *)
yfinance_news(ticker) ==
    /\ ad_pc = "idle"
    /\ ad_call' = [method |-> "_fetch_news_for_ticker", arg |-> ticker]
    /\ ad_sent' = <<>>
    /\ ad_recv' = <<>>
    /\ \/ \E news_items \in SampleFeeds :
             Return([news |-> _fetch_news_for_ticker(ticker, news_items)])
       \/ Return([news |-> <<>>])
    /\ UNCHANGED env
    /\ UNCHANGED <<apiVars, fnVars, pool, threads>>

(* the caller takes the result *)
AdapterDone ==
    /\ ad_pc \in {"returned", "raised"}
    /\ ad_pc' = "idle"
    /\ ad_call' = NoResponse
    /\ ad_sent' = <<>>
    /\ ad_recv' = <<>>
    /\ ad_ret' = NoResponse
    /\ UNCHANGED env
    /\ UNCHANGED <<apiVars, fnVars, pool, threads>>

AdNext ==
    \/ \E m \in AdapterMethods, t \in AdapterTickers : IndianStockAPI(m, t)
    \/ \E r \in AllOutcomes : FirstResponse(r)
    \/ \E r \in AllOutcomes : RetryResponse(r)
    \/ \E q \in Queries : search_news_for_query(q)
    \/ \E r \in AllOutcomes : SearchResponse(r)
    \/ \E t \in Tickers : yfinance_news(t)
    \/ AdapterDone

AdapterSpec == AdInit /\ [][AdNext]_vars

---------------------------------------------------------------------------
(* The scoring functions applied on their own *)

(* what the lookups find for a ticker *)
Lookup(technical, rsi, fundamental, trailingPE) ==
    [technical |-> technical, rsi |-> rsi,
     fundamental |-> fundamental, trailingPE |-> trailingPE]
MarketSamples ==
    { NoLookup,
      Lookup("data", 25, "none", 0),
      Lookup("data", 20, "error", 0),
      Lookup("data", 75, "data", 10),
      Lookup("short", 0, "data", 30) }

(* average polarities, in hundredths *)
ScoreSamples == {Mean(<<15>>), Mean(<<0>>), Mean(<<10, 10>>), Mean(<<-5>>), Mean(<<-5, 15>>)}

FnInit ==
    /\ upstream = [t \in Tickers |-> <<>>]
    /\ now = 0
    /\ cache = NoCache
    /\ pc = "idle"
    /\ call = "none"
    /\ args = <<>>
    /\ fut = NoFutures
    /\ all_news = <<>>
    /\ ret = NoResponse
    /\ env = [INDIAN_STOCK_API_KEY |-> "secret", NEWSAPI_AI_KEY |-> "secret"]
    /\ ad_pc = "idle"
    /\ ad_call = NoResponse
    /\ ad_sent = <<>>
    /\ ad_recv = <<>>
    /\ ad_ret = NoResponse
    /\ market \in [Tickers -> MarketSamples]
    /\ fn = NoResponse
    /\ pool = NoPool
    /\ threads = NoThreads

(* recommendations(), lines 226-231, for one ticker and its average *)
ApplyEnhance(ticker, avg_sentiment) ==
    /\ LET base_rec == _recommendation_from_score(avg_sentiment)
       IN  fn' = [name     |-> "_enhance_recommendation_with_mcp",
                  ticker   |-> ticker,
                  score    |-> avg_sentiment,
                  base_rec |-> base_rec,
                  ret      |-> _enhance_recommendation_with_mcp(ticker, avg_sentiment,
                                                                base_rec)]
    /\ UNCHANGED <<apiVars, adVars, market, pool, threads>>

(* mcp_integration.enhance_recommendation_with_mcp for one ticker *)
ApplyMcpEnhance(ticker, avg_sentiment) ==
    /\ LET base_rec == _recommendation_from_score(avg_sentiment)
       IN  fn' = [name     |-> "enhance_recommendation_with_mcp",
                  ticker   |-> ticker,
                  score    |-> avg_sentiment,
                  base_rec |-> base_rec,
                  ret      |-> enhance_recommendation_with_mcp(ticker, avg_sentiment,
                                                               base_rec)]
    /\ UNCHANGED <<apiVars, adVars, market, pool, threads>>

(* get_technical_indicators from the history yfinance returned.  A history
   is n daily rows; the close of the rows in `nans` is NaN and every other
   close is `price`, so that the means below are the price itself.  `raises`
   says that stock.history() raised. *)
MIN_HISTORY == 20
NEUTRAL_RSI == 50

History(n, nans, price) == [raises |-> FALSE, n |-> n, nans |-> nans, price |-> price]
NoHistory == [raises |-> TRUE, n |-> 0, nans |-> {}, price |-> 0]

(* the keyword arguments sma_windows, ema_windows, rsi_window *)
Windows(sma_windows, ema_windows, rsi_window) ==
    [sma_windows |-> sma_windows, ema_windows |-> ema_windows, rsi_window |-> rsi_window]
DefaultWindows == Windows(<<20, 50, 200>>, <<12, 26>>, 14)

(* calculate_rsi: no price of a flat series rises or falls, and the NaN
   differences count as 0, so gain = loss = 0 and 100 - 100 / (1 + 0) = 0 *)
calculate_rsi(hist, window) ==
    IF hist.n < window + 1 THEN NEUTRAL_RSI ELSE 0

(* mutant: a series exactly as long as the window is too short *)
Mutant_SmaValue_longer_than_window(hist, window) ==
    IF hist.n > window
    THEN IF \E i \in (hist.n - window + 1)..hist.n : i \in hist.nans
         THEN JNull
         ELSE JNum(hist.price)
    ELSE JNull

(* rolling(window).mean().iloc[-1]: NaN, hence None, when one of the last
   `window` closes is NaN *)
SmaValue(hist, window) ==
    IF hist.n >= window
    THEN IF \E i \in (hist.n - window + 1)..hist.n : i \in hist.nans
         THEN JNull
         ELSE JNum(hist.price)
    ELSE JNull

(* ewm(span=window, adjust=False).mean().iloc[-1]: the weighted mean of the
   closes that are not NaN *)
EmaValue(hist, window) ==
    IF hist.n >= window
    THEN IF \A i \in 1..hist.n : i \in hist.nans THEN JNull ELSE JNum(hist.price)
    ELSE JNull

NoSnapshot == [empty |-> TRUE]

get_technical_indicators_of(hist, w) ==
    IF hist.raises THEN NoSnapshot
    ELSE IF hist.n = 0 \/ hist.n < MIN_HISTORY THEN NoSnapshot
    ELSE IF \A i \in 1..hist.n : i \in hist.nans THEN NoSnapshot
    ELSE [empty         |-> FALSE,
          rsi           |-> calculate_rsi(hist, w.rsi_window),
          sma           |-> [x \in Range(w.sma_windows) |-> SmaValue(hist, x)],
          ema           |-> [x \in Range(w.ema_windows) |-> EmaValue(hist, x)],
          current_price |-> IF hist.n \in hist.nans THEN JNull ELSE JNum(hist.price)]

(* histories: too short, just long enough, with gaps, without any price *)
HistoryLengths == {0, 1, 19, 20, 21, 25, 26, 50}
Gaps(n) == { {}, 1..n, {n}, {1}, {n - 19}, {n - 20} }
HistorySamples ==
    {NoHistory} \cup
    { History(n, nans \cap 1..n, 100) : n \in HistoryLengths, nans \in UNION {Gaps(m) : m \in HistoryLengths} }
WindowSamples == { DefaultWindows, Windows(<<5, 21>>, <<30, 20>>, 25) }

(* get_technical_indicators(ticker, ...) when yfinance returns `hist` *)
ApplyTechnical(ticker, hist, w) ==
    /\ fn' = [name    |-> "get_technical_indicators",
              ticker  |-> ticker,
              hist    |-> hist,
              windows |-> w,
              ret     |-> get_technical_indicators_of(hist, w)]
    /\ UNCHANGED <<apiVars, adVars, market, pool, threads>>

(* texts handed to _analyze_sentiment *)
TextSamples ==
    { None, <<>>, <<SP>>, <<SP, SP>>, <<"up">>, <<SP, "up", SP>>,
      <<"dip", SP, "up">>, <<"flat">> }

(* the title and the summary of a news item *)
FieldSamples == { <<>>, <<SP>>, <<"up">>, <<"dip">> }

(* _analyze_sentiment(text) *)
ApplyAnalyze(text) ==
    /\ fn' = [name |-> "_analyze_sentiment",
              text |-> text,
              ret  |-> _analyze_sentiment_run(text)]
    /\ UNCHANGED <<apiVars, adVars, market, pool, threads>>

(* one round of the loop of sentiment(), lines 186-200 *)
ApplySentimentRecord(ticker, title, summary) ==
    /\ LET n == [ticker |-> ticker, title |-> title, summary |-> summary]
       IN  fn' = [name |-> "sentiment",
                  item |-> n,
                  ret  |-> SentimentRecord(n)]
    /\ UNCHANGED <<apiVars, adVars, market, pool, threads>>

FnNext ==
    \/ \E t \in Tickers, s \in ScoreSamples : ApplyEnhance(t, s)
    \/ \E t \in Tickers, s \in ScoreSamples : ApplyMcpEnhance(t, s)
    \/ \E text \in TextSamples : ApplyAnalyze(text)
    \/ \E t \in Tickers, title \in FieldSamples, summary \in FieldSamples :
          ApplySentimentRecord(t, title, summary)

EnrichSpec == FnInit /\ [][FnNext]_vars

---------------------------------------------------------------------------
(* news() at the size of the real universe: the tasks of the executor are
   counted, not told apart *)

(* len(US_TICKERS) + len(INDIAN_TICKERS) *)
UNIVERSE_SIZE == 109

PoolInit ==
    /\ upstream = [t \in Tickers |-> <<>>]
    /\ now = 0
    /\ cache = NoCache
    /\ pc = "idle"
    /\ call = "none"
    /\ args = <<>>
    /\ fut = NoFutures
    /\ all_news = <<>>
    /\ ret = NoResponse
    /\ env = [INDIAN_STOCK_API_KEY |-> "secret", NEWSAPI_AI_KEY |-> "secret"]
    /\ ad_pc = "idle"
    /\ ad_call = NoResponse
    /\ ad_sent = <<>>
    /\ ad_recv = <<>>
    /\ ad_ret = NoResponse
    /\ market = NoMarket
    /\ fn = NoResponse
    /\ pool = NoPool
    /\ threads = NoThreads

(* mutant: the executor starts a thread for every task *)
Mutant_PoolSubmit_unbounded(p) ==
    [p EXCEPT !.submitted = @ + 1, !.running = @ + 1]

(* executor.submit: the task runs at once while fewer than max_workers
   threads are busy, and waits in the queue otherwise *)
PoolSubmit(p) ==
    IF p.running < MAX_WORKERS
    THEN [p EXCEPT !.submitted = @ + 1, !.running = @ + 1]
    ELSE [p EXCEPT !.submitted = @ + 1, !.queued = @ + 1]

(* a worker finishes its task and takes the next one of the queue *)
PoolTaskDone(p) ==
    IF p.queued > 0
    THEN [p EXCEPT !.done = @ + 1, !.queued = @ - 1]
    ELSE [p EXCEPT !.done = @ + 1, !.running = @ - 1]

(* news() with nothing cached: the executor is created *)
PoolEnter ==
    /\ pool.phase = "idle"
    /\ pool' = [NoPool EXCEPT !.phase = "submitting"]
    /\ UNCHANGED <<apiVars, adVars, fnVars, threads>>

(* the dict comprehension submits the next ticker of TICKERS *)
PoolSubmitNext ==
    /\ pool.phase = "submitting"
    /\ pool.submitted < UNIVERSE_SIZE
    /\ pool' = PoolSubmit(pool)
    /\ UNCHANGED <<apiVars, adVars, fnVars, threads>>

(* every ticker is submitted: the as_completed loop starts *)
PoolCollect ==
    /\ pool.phase = "submitting"
    /\ pool.submitted = UNIVERSE_SIZE
    /\ pool' = [pool EXCEPT !.phase = "collecting"]
    /\ UNCHANGED <<apiVars, adVars, fnVars, threads>>

(* one fetch ends, with items, with [] or with an exception *)
PoolFetchEnds ==
    /\ pool.phase \in {"submitting", "collecting"}
    /\ pool.running > 0
    /\ pool' = PoolTaskDone(pool)
    /\ UNCHANGED <<apiVars, adVars, fnVars, threads>>

(* as_completed has yielded every future and the with block has shut the
   executor down: _set_cache, return *)
PoolReturn ==
    /\ pool.phase = "collecting"
    /\ pool.done = pool.submitted
    /\ pool' = [pool EXCEPT !.phase = "returned"]
    /\ UNCHANGED <<apiVars, adVars, fnVars, threads>>

PoolDeliver ==
    /\ pool.phase = "returned"
    /\ pool' = NoPool
    /\ UNCHANGED <<apiVars, adVars, fnVars, threads>>

PoolNext ==
    \/ PoolEnter
    \/ PoolSubmitNext
    \/ PoolCollect
    \/ PoolFetchEnds
    \/ PoolReturn
    \/ PoolDeliver

PoolSpec == PoolInit /\ [][PoolNext]_vars

---------------------------------------------------------------------------
(* get_technical_indicators applied to the sample histories *)

(* nothing is running and nothing has been looked up *)
TechInit == PoolInit

TechNext ==
    \E t \in Tickers, hist \in HistorySamples, w \in WindowSamples :
        ApplyTechnical(t, hist, w)

TechnicalSpec == TechInit /\ [][TechNext]_vars

---------------------------------------------------------------------------
(* Two request threads in news() at the same time.  The endpoints are plain
   functions, which the server runs in a pool of threads; a thread can be
   interrupted between any two accesses of the dict _cache. *)

(* what yfinance holds while the two requests run *)
RaceFeeds == [t \in Tickers |-> IF t = TICKERS[1] THEN <<ItemUp>>
                                ELSE IF t = TICKERS[2] THEN <<ItemDip>> ELSE <<>>]

(* the entry an earlier news() call wrote at time 0 *)
OldEntry == _set_cache(NoCache, "news_all", _fetch_news_for_ticker(TICKERS[1], <<ItemUp>>), 0)

RaceInit ==
    /\ upstream = RaceFeeds
    /\ now \in Instants
    /\ cache \in {NoCache, OldEntry}
    /\ pc = "idle"
    /\ call = "none"
    /\ args = <<>>
    /\ fut = NoFutures
    /\ all_news = <<>>
    /\ ret = NoResponse
    /\ env = [INDIAN_STOCK_API_KEY |-> "secret", NEWSAPI_AI_KEY |-> "secret"]
    /\ ad_pc = "idle"
    /\ ad_call = NoResponse
    /\ ad_sent = <<>>
    /\ ad_recv = <<>>
    /\ ad_ret = NoResponse
    /\ market = NoMarket
    /\ fn = NoResponse
    /\ pool = NoPool
    /\ threads = NoThreads

RaceFrame ==
    /\ UNCHANGED <<upstream, now, pc, call, args, fut, all_news, ret>>
    /\ UNCHANGED <<adVars, fnVars, pool>>

KeyErrorRaised == [kind |-> "KeyError", items |-> <<>>]
Items(list) == [kind |-> "items", items |-> list]

(* _get_cache, line 26: if key not in _cache *)
ThreadTest(i) ==
    /\ threads[i].pc = "idle"
    /\ threads' = [threads EXCEPT ![i].pc =
                      IF "news_all" \notin DOMAIN cache THEN "submit" ELSE "read"]
    /\ UNCHANGED cache
    /\ RaceFrame

(* _get_cache, lines 28-29 and 32: data, timestamp = _cache[key], which
   raises KeyError when the key has gone; then the test of the age *)
ThreadRead(i) ==
    /\ threads[i].pc = "read"
    /\ threads' =
          IF "news_all" \notin DOMAIN cache
          THEN [threads EXCEPT ![i].pc = "raised", ![i].ret = KeyErrorRaised]
          ELSE LET entry == cache["news_all"]
               IN  IF now - entry.timestamp > CACHE_TTL
                   THEN [threads EXCEPT ![i].pc = "del",
                                        ![i].data = entry.data,
                                        ![i].timestamp = entry.timestamp]
                   ELSE [threads EXCEPT ![i].pc = "done",
                                        ![i].data = entry.data,
                                        ![i].timestamp = entry.timestamp,
                                        ![i].ret = Items(entry.data)]
    /\ UNCHANGED cache
    /\ RaceFrame

(* _get_cache, lines 30-31: del _cache[key], which raises KeyError when the
   key has gone; return None *)
ThreadDel(i) ==
    /\ threads[i].pc = "del"
    /\ IF "news_all" \notin DOMAIN cache
       THEN /\ threads' = [threads EXCEPT ![i].pc = "raised", ![i].ret = KeyErrorRaised]
            /\ UNCHANGED cache
       ELSE /\ threads' = [threads EXCEPT ![i].pc = "submit"]
            /\ cache' = [k \in (DOMAIN cache) \ {"news_all"} |-> cache[k]]
    /\ RaceFrame

(* news(), lines 144-151: the call's own all_news and its own futures *)
ThreadSubmit(i) ==
    /\ threads[i].pc = "submit"
    /\ threads' = [threads EXCEPT ![i].pc = "fanout",
                                  ![i].all_news = <<>>,
                                  ![i].fut = Submit]
    /\ UNCHANGED cache
    /\ RaceFrame

(* a fetch of the call returns and its loop extends its all_news *)
ThreadFetchReturns(i, t) ==
    /\ threads[i].pc = "fanout"
    /\ threads[i].fut[t] = "running"
    /\ threads' = [threads EXCEPT
                      ![i].fut = Dequeue([@ EXCEPT ![t] = "ok"]),
                      ![i].all_news = @ \o _fetch_news_for_ticker(t, upstream[t])]
    /\ UNCHANGED cache
    /\ RaceFrame

(* a fetch of the call fails: nothing is added *)
ThreadFetchFails(i, t) ==
    /\ threads[i].pc = "fanout"
    /\ threads[i].fut[t] = "running"
    /\ threads' = [threads EXCEPT ![i].fut = Dequeue([@ EXCEPT ![t] = "failed"])]
    /\ UNCHANGED cache
    /\ RaceFrame

(* news(), lines 167-169: _set_cache(cache_key, all_news); return all_news *)
ThreadJoin(i) ==
    /\ threads[i].pc = "fanout"
    /\ \A t \in Tickers : threads[i].fut[t] \in {"ok", "failed"}
    /\ cache' = _set_cache(cache, "news_all", threads[i].all_news, now)
    /\ threads' = [threads EXCEPT ![i].pc = "done",
                                  ![i].ret = Items(threads[i].all_news)]
    /\ RaceFrame

RaceNext ==
    \/ \E i \in Threads : ThreadTest(i)
    \/ \E i \in Threads : ThreadRead(i)
    \/ \E i \in Threads : ThreadDel(i)
    \/ \E i \in Threads : ThreadSubmit(i)
    \/ \E i \in Threads, t \in Tickers : ThreadFetchReturns(i, t)
    \/ \E i \in Threads, t \in Tickers : ThreadFetchFails(i, t)
    \/ \E i \in Threads : ThreadJoin(i)

RaceSpec == RaceInit /\ [][RaceNext]_vars

---------------------------------------------------------------------------
(* Properties *)

TickersOf(rows) == {rows[i].ticker : i \in 1..Len(rows)}
ItemsOfTicker(items, t) == SelectSeq(items, LAMBDA n : n.ticker = t)
Cleaned(t) == _fetch_news_for_ticker(t, upstream[t])
Returned(endpoint) == pc = "done" /\ call = endpoint

(* the label the thresholds 0.10 and -0.05 give to an average *)
ThresholdLabel(score) ==
    IF score.num >= 10 * score.den THEN "Buy"
    ELSE IF score.num <= (-5) * score.den THEN "Sell"
    ELSE "Hold"

(* the polarities the report runner averages for a ticker: those of its
   items that have text *)
ReportScores(t) ==
    LET scored == PerArticle(Cleaned(t))
    IN  [i \in 1..Len(scored) |-> scored[i].polarity]

(* C1: the label of every average polarity is Buy from 0.10 up, Sell from
   -0.05 down and Hold between, in the rows of recommendations(), in the
   entries of compare_stocks() and in the rows of the report runner. *)
C1_ThresholdLabels ==
    /\ Returned("recommendations") =>
          \A i \in 1..Len(ret.rows) :
              ret.rows[i].recommendation = ThresholdLabel(ret.rows[i].avg_polarity)
    /\ (Returned("compare") /\ ~CompareRejects(args)) =>
          \A i \in 1..Len(ret.comparison) :
              ret.comparison[i].sentiment.recommendation =
                  ThresholdLabel(ret.comparison[i].sentiment.avg_polarity)
    /\ Returned("report") =>
          \A i \in 1..Len(ret.csv_rows) :
              ret.csv_rows[i].recommendation =
                  ThresholdLabel(Mean(ReportScores(ret.csv_rows[i].ticker)))

(* C1 witness: recommendations() returned a row whose average is exactly
   0.10, a row whose average is exactly -0.05 and a row in between. *)
C1_Witness ==
    /\ Returned("recommendations")
    /\ \E i, j, k \in 1..Len(ret.rows) :
        /\ ret.rows[i].avg_polarity = [num |-> 10, den |-> 1]
        /\ ret.rows[i].recommendation = "Buy"
        /\ ret.rows[j].avg_polarity = [num |-> -5, den |-> 1]
        /\ ret.rows[j].recommendation = "Sell"
        /\ ret.rows[k].avg_polarity = [num |-> 2, den |-> 2]
        /\ ret.rows[k].recommendation = "Hold"

(* C2: every row returned by recommendations() has a confidence within
   [0.3, 1.0]. *)
C2_ConfidenceInRange ==
    Returned("recommendations") =>
        \A i \in 1..Len(ret.rows) :
            ret.rows[i].confidence >= 30 /\ ret.rows[i].confidence <= 100

(* C2 witness: recommendations() returned rows of all three labels. *)
C2_Witness ==
    /\ Returned("recommendations")
    /\ {ret.rows[i].recommendation : i \in 1..Len(ret.rows)} = {"Buy", "Hold", "Sell"}
    /\ \A i \in 1..Len(ret.rows) : ret.rows[i].confidence = 50

(* the row recommendations() gives a ticker whose news was collected *)
ExpectedRow(t) ==
    LET records == SentimentOf(Cleaned(t))
    IN  RowOf([ticker |-> t,
               scores |-> [i \in 1..Len(records) |-> records[i].polarity]])

RECURSIVE CanonicalRows(_, _)
CanonicalRows(tickers, present) ==
    IF tickers = <<>> THEN <<>>
    ELSE (IF Head(tickers) \in present THEN <<ExpectedRow(Head(tickers))>> ELSE <<>>)
         \o CanonicalRows(Tail(tickers), present)

(* C3: the rows of recommendations() are in the order of TICKERS and are the
   same for every order in which the fetches completed: the result is
   decided by which tickers contributed news alone. *)
C3_CanonicalOrder ==
    Returned("recommendations") =>
        ret.rows = CanonicalRows(TICKERS, TickersOf(ret.rows))

(* C3 witness: recommendations() returned three rows after a fan-out whose
   fetches completed in the reverse of the canonical order. *)
C3_Witness ==
    /\ Returned("recommendations")
    /\ Len(ret.rows) = 3
    /\ Len(all_news) >= 3
    /\ all_news[1].ticker = TICKERS[3]
    /\ all_news[Len(all_news)].ticker = TICKERS[1]

(* C4: a ticker without news (the provider had none, or its fetch failed)
   is in no record of sentiment() and no row of recommendations(); every
   ticker with news is in exactly one row of recommendations(). *)
C4_NoNewsNoRow ==
    (Returned("sentiment") \/ Returned("recommendations")) =>
        LET out == IF call = "sentiment" THEN ret.records ELSE ret.rows
        IN  /\ \A t \in TickersOf(out) : upstream[t] # <<>>
            /\ fut # NoFutures =>
                  /\ TickersOf(out) = {t \in Tickers : fut[t] = "ok" /\ upstream[t] # <<>>}
                  /\ TickersOf(out) = TickersOf(all_news)
            /\ call = "recommendations" =>
                  /\ TickersOf(out) = TickersOf(cache["sentiment_all"].data)
                  /\ \A t \in TickersOf(out) :
                        Cardinality({i \in 1..Len(out) : out[i].ticker = t}) = 1

(* C4 witness: recommendations() returned after a fan-out in which one
   ticker had no news, one fetch failed and one ticker had two items. *)
C4_Witness ==
    /\ Returned("recommendations")
    /\ Len(ret.rows) = 1
    /\ \E t \in Tickers : fut[t] = "ok" /\ upstream[t] = <<>>
    /\ \E t \in Tickers : fut[t] = "failed" /\ upstream[t] # <<>>
    /\ \E t \in Tickers : fut[t] = "ok" /\ Len(upstream[t]) = 2

(* a news() call begins in this step *)
NewsCalled == pc = "idle" /\ pc' # "idle" /\ call' = "news"
(* the entry of news_all is within its window of 5 minutes *)
NewsFresh == "news_all" \in DOMAIN cache /\ now - cache["news_all"].timestamp <= 300

(* C5: a news() call made while the entry is at most 5 minutes old returns
   the list the call that fetched it returned and wrote, and submits no
   fetch; a call made later submits the fetch of every ticker again. *)
C5_CacheWindow ==
    [][ /\ (NewsCalled /\ NewsFresh) =>
              /\ pc' = "done"
              /\ ret' = [items |-> cache["news_all"].data]
              /\ fut' = NoFutures
              /\ cache' = cache
        /\ (NewsCalled /\ ~NewsFresh) =>
              /\ pc' = "fanout"
              /\ \A t \in Tickers : fut'[t] \in {"running", "queued"}
        /\ (pc = "fanout" /\ pc' = "done" /\ call = "news") =>
              /\ ret' = [items |-> all_news]
              /\ cache'["news_all"] = [data |-> all_news, timestamp |-> now]
        /\ (NewsFresh /\ ~(pc = "fanout" /\ pc' = "done")) =>
              /\ "news_all" \in DOMAIN cache'
              /\ cache'["news_all"] = cache["news_all"]
      ]_vars

(* C5 witness: news() returned a non-empty list from an entry that is
   exactly 5 minutes old. *)
C5_Witness ==
    /\ Returned("news")
    /\ fut = NoFutures
    /\ ret.items # <<>>
    /\ now - cache["news_all"].timestamp = 300

(* C6: news() returns also when the fetch of one ticker never completes:
   once the fetch of the second ticker hangs and the other two have
   completed, news() can write the cache and return. *)
C6_HungFetchDoesNotBlock ==
    (/\ pc = "fanout"
     /\ fut[TICKERS[2]] = "hung"
     /\ fut[TICKERS[1]] = "ok"
     /\ fut[TICKERS[3]] = "ok") => ENABLED NewsJoin

(* C7: when news() returns after its fan-out, every fetch has been
   collected, a ticker whose fetch failed has no item in the list and the
   items of every other ticker are all there, whichever fetches failed. *)
C7_FailureIsolated ==
    (Returned("news") /\ fut # NoFutures) =>
        \A t \in Tickers :
            /\ fut[t] \in {"ok", "failed"}
            /\ fut[t] = "failed" => ItemsOfTicker(ret.items, t) = <<>>
            /\ fut[t] = "ok" => ItemsOfTicker(ret.items, t) = Cleaned(t)

(* C7 witness: news() returned the items of two tickers after the fetch of
   a third, which had news, failed. *)
C7_Witness ==
    /\ Returned("news")
    /\ \E t \in Tickers : fut[t] = "failed" /\ upstream[t] # <<>>
    /\ Cardinality({t \in Tickers : fut[t] = "ok" /\ ItemsOfTicker(ret.items, t) # <<>>}) = 2

(* the adapter call in progress or just finished, and what it has seen *)
AdapterCalled(methods) == ad_pc # "idle" /\ ad_call.method \in methods
AdapterFinished(methods) ==
    ad_pc \in {"returned", "raised"} /\ ad_call.method \in methods
IsRejection(resp) == resp.kind = "http" /\ resp.status # 200
IsFailure(resp) == resp.kind = "error"
IsAccepted(resp) == resp.kind = "http" /\ resp.status = 200
AllAdapterCalls == AdapterMethods \cup {"search_news_for_query"}

(* C8: in fetch_news, fetch_price_history and fetch_current_price a non-200
   response to the header-authenticated request is followed by exactly one
   retry carrying the key as a query parameter; no call sends more than two
   requests; when the retry is rejected too the call returns its empty value
   and does not raise. *)
C8_RetryOnceThenEmpty ==
    AdapterCalled(AdapterMethods) =>
        /\ Len(ad_sent) <= 2
        /\ Len(ad_sent) >= 1 =>
              ad_sent[1] = Request(ad_call.method, ad_call.arg, "header")
        /\ (Len(ad_recv) >= 1 /\ IsRejection(ad_recv[1])) =>
              /\ Len(ad_sent) = 2
              /\ ad_sent[2] = Request(ad_call.method, ad_call.arg, "query")
        /\ (Len(ad_recv) = 2 /\ IsRejection(ad_recv[1]) /\ IsRejection(ad_recv[2])) =>
              /\ ad_pc = "returned"
              /\ ad_ret = EmptyResult(ad_call.method)

C8_Witness ==
    /\ AdapterFinished({"fetch_price_history"})
    /\ Len(ad_recv) = 2
    /\ IsRejection(ad_recv[1])
    /\ IsRejection(ad_recv[2])
    /\ ad_sent[2].auth = "query"
    /\ ad_ret = [history |-> NoPoints]

(* C9, as stated: a network or timeout failure of an IndianStockAPI request
   is answered by the retry with the alternate authentication before the
   call falls back to its empty result, on whichever attempt it occurs. *)
C9_FailureRetriedThenEmpty ==
    (AdapterFinished(AdapterMethods) /\ \E i \in 1..Len(ad_recv) : IsFailure(ad_recv[i])) =>
        /\ ad_pc = "returned"
        /\ ad_ret = EmptyResult(ad_call.method)
        /\ Len(ad_sent) = 2
        /\ ad_sent[2].auth = "query"

(* C9, amended: a network or timeout failure of an adapter request is never
   raised to the caller: the call returns its empty result. The failure ends
   the call: no request follows it, so a failure of the first attempt is not
   retried, and the retry only ever follows a non-200 response. *)
C9_FailureEndsInEmpty ==
    (AdapterCalled(AllAdapterCalls) /\ \E i \in 1..Len(ad_recv) : IsFailure(ad_recv[i])) =>
        /\ ad_pc = "returned"
        /\ ad_ret = EmptyResult(ad_call.method)
        /\ IsFailure(ad_recv[Len(ad_recv)])
        /\ Len(ad_sent) = Len(ad_recv)
        /\ \A i \in 1..(Len(ad_recv) - 1) : IsRejection(ad_recv[i])

C9_Witness ==
    /\ AdapterFinished({"fetch_news"})
    /\ Len(ad_recv) = 1
    /\ IsFailure(ad_recv[1])
    /\ Len(ad_sent) = 1
    /\ ad_ret = [news |-> <<>>]

(* C10: for every JSON body of a 200 response fetch_news returns a list of
   news items, possibly empty, and never raises. *)
C10_SchemaMismatchNeverRaised ==
    (/\ AdapterFinished({"fetch_news"})
     /\ Len(ad_recv) >= 1
     /\ IsAccepted(ad_recv[Len(ad_recv)])) =>
        /\ ad_pc = "returned"
        /\ DOMAIN ad_ret = {"news"}

(* the body of the 200 response that ended the adapter call *)
AcceptedBody == ad_recv[Len(ad_recv)].body
ParsedAccepted(methods) ==
    /\ AdapterFinished(methods)
    /\ Len(ad_recv) >= 1
    /\ IsAccepted(ad_recv[Len(ad_recv)])

(* the value of the first key of `keys` that holds a non-empty value *)
RECURSIVE FirstNonEmpty(_, _)
FirstNonEmpty(body, keys) ==
    IF keys = <<>> THEN EmptyList
    ELSE IF Head(keys) \in DOMAIN body.o /\ Truthy(body.o[Head(keys)])
         THEN body.o[Head(keys)]
         ELSE FirstNonEmpty(body, Tail(keys))

NewsContainer(body) ==
    IF IsList(body) THEN body
    ELSE FirstNonEmpty(body, <<"data", "articles", "news", "results">>)

NewsItemsIn(container, ticker) ==
    LET dicts == DictsIn(container)
    IN  [i \in 1..Len(dicts) |-> ParseNewsItem(dicts[i], ticker)]

(* C11: _parse_news takes its items from the first non-empty container among
   data, articles, news, results, in that order, ignoring the later ones, and
   from the response itself when the response is a list. *)
C11_FirstNonEmptyContainer ==
    ParsedAccepted({"fetch_news"}) =>
        /\ ad_pc = "returned"
        /\ ad_ret = [news |-> NewsItemsIn(NewsContainer(AcceptedBody), ad_call.arg)]

(* the [date, price] pairs of the dataset object of a container *)
IsDatasetShape(container) ==
    /\ IsList(container)
    /\ container.a # <<>>
    /\ IsDict(container.a[1])
    /\ "values" \in DOMAIN container.a[1].o
    /\ IsList(container.a[1].o["values"])
    /\ container.a[1].o["values"].a # <<>>
PairsOf(container) ==
    SelectSeq(container.a[1].o["values"].a, LAMBDA e : IsList(e) /\ Len(e.a) >= 2)
PairDates(pairs) == [i \in 1..Len(pairs) |-> Str(pairs[i].a[1])]
PairCloses(pairs) ==
    LET priced == SelectSeq(pairs, LAMBDA e : FloatOk(e.a[2]))
    IN  [i \in 1..Len(priced) |-> Float(priced[i].a[2])]
AllPriced(pairs) == \A i \in 1..Len(pairs) : FloatOk(pairs[i].a[2])

FlatKeys == <<"data", "prices", "history", "candles">>
PriceContainer(body) == FirstNonEmpty(body, FlatKeys \o <<"datasets">>)

(* the points of a flat list: the objects that carry a date and a price *)
FlatDate(item) == FirstNonEmpty(item, <<"date", "timestamp", "time", "datetime">>)
FlatClose(item) == FirstNonEmpty(item, <<"close", "closePrice", "c", "price">>)
FlatItems(container) ==
    SelectSeq(DictsIn(container),
              LAMBDA item : Truthy(FlatDate(item)) /\ Truthy(FlatClose(item)))

(* C12, as stated: a response that carries a dataset object with [date, price]
   pairs gives the dates and closes of those pairs in order, also when it
   carries a non-empty flat list under data, prices, history or candles. *)
C12_DatasetTakesPriority ==
    (/\ ParsedAccepted({"fetch_price_history"})
     /\ IsDict(AcceptedBody)
     /\ "datasets" \in DOMAIN AcceptedBody.o
     /\ IsDatasetShape(AcceptedBody.o["datasets"])
     /\ AllPriced(PairsOf(AcceptedBody.o["datasets"]))) =>
        LET pairs == PairsOf(AcceptedBody.o["datasets"])
        IN  ad_ret = [history |-> [dates |-> PairDates(pairs), closes |-> PairCloses(pairs)]]

(* C12, amended: the container is the first non-empty value among data,
   prices, history, candles, datasets. When it has the dataset shape the
   result holds the dates of its pairs in order and the closes of its pairs
   whose price converts, in order; the dataset under `datasets` is read only
   when none of the flat keys holds a non-empty value, and a non-empty flat
   list under one of them is what is parsed otherwise. *)
C12_DatasetWhenSelected ==
    (ParsedAccepted({"fetch_price_history"}) /\ IsDict(AcceptedBody)) =>
        LET container == PriceContainer(AcceptedBody)
        IN  /\ ad_pc = "returned"
            /\ IsDatasetShape(container) =>
                  /\ ad_ret.history.dates = PairDates(PairsOf(container))
                  /\ ad_ret.history.closes = PairCloses(PairsOf(container))
            /\ Truthy(FirstNonEmpty(AcceptedBody, FlatKeys)) =>
                  /\ container = FirstNonEmpty(AcceptedBody, FlatKeys)
                  /\ ~IsDatasetShape(container) =>
                        Len(ad_ret.history.dates) = Len(FlatItems(container))
                        /\ \A i \in 1..Len(FlatItems(container)) :
                              ad_ret.history.dates[i] = Str(FlatDate(FlatItems(container)[i]))

C12_Witness ==
    /\ ParsedAccepted({"fetch_price_history"})
    /\ IsDict(AcceptedBody)
    /\ DOMAIN AcceptedBody.o = {"datasets"}
    /\ ad_ret = [history |-> [dates  |-> <<"2024-01-01", "2024-01-02">>,
                               closes |-> <<10050, 10100>>]]

(* C13: a point whose price does not convert to a number contributes neither
   a date nor a close, so dates and closes have the same length and dates[i]
   belongs to closes[i]. *)
C13_PointSkippedWhole ==
    (ParsedAccepted({"fetch_price_history"}) /\ ad_pc = "returned") =>
        /\ Len(ad_ret.history.dates) = Len(ad_ret.history.closes)
        /\ (IsDict(AcceptedBody) /\ IsDatasetShape(PriceContainer(AcceptedBody))) =>
              LET priced == SelectSeq(PairsOf(PriceContainer(AcceptedBody)),
                                      LAMBDA e : FloatOk(e.a[2]))
              IN  ad_ret.history.dates = PairDates(priced)

(* the function applied, and the snapshots the lookups hold for its ticker *)
Applied(name) == "name" \in DOMAIN fn /\ fn.name = name
Technicals == get_technical_indicators(fn.ticker)
Fundamentals == get_fundamental_snapshot(fn.ticker)
Oversold == Technicals.found /\ Technicals.rsi < 30
Overbought == Technicals.found /\ Technicals.rsi > 70
CheapEarnings ==
    Fundamentals.found /\ Fundamentals.trailingPE > 0 /\ Fundamentals.trailingPE < 20
Clamp(c) == Max2(30, Min2(100, c))
Nudged ==
    50 + (IF Oversold THEN 10 ELSE 0) - (IF Overbought THEN 10 ELSE 0)
       + (IF CheapEarnings THEN 10 ELSE 0)

(* C14, as stated: confidence is 0.5, plus 0.1 when the RSI of the ticker's
   snapshot is below 30, minus 0.1 when it is above 70, plus 0.1 when its
   trailing P/E is in (0, 20); avg_polarity 0.15 with RSI 25 gives Buy with
   confidence 0.60. (The rows an override changes are left to C15.) *)
C14_ConfidenceNudged ==
    (/\ Applied("_enhance_recommendation_with_mcp")
     /\ ~(Oversold /\ fn.base_rec = "Hold")
     /\ ~(Overbought /\ fn.base_rec = "Buy")) =>
        /\ fn.ret.confidence = Clamp(Nudged)
        /\ (fn.score = Mean(<<15>>) /\ Technicals.found /\ Technicals.rsi = 25
                                     /\ ~Fundamentals.found) =>
              (fn.ret.recommendation = "Buy" /\ fn.ret.confidence = 60)

(* C14, amended: confidence starts at 0.5 and stays there: the recommendation
   path obtains no TechnicalSnapshot and no FundamentalSnapshot, so neither
   the RSI nor the trailing P/E of the ticker changes it; avg_polarity 0.15
   with RSI 25 gives Buy with confidence 0.50. *)
C14_ConfidenceIgnoresSnapshots ==
    Applied("_enhance_recommendation_with_mcp") =>
        /\ fn.ret.confidence = 50
        /\ fn.score = Mean(<<15>>) => fn.ret.recommendation = "Buy"

C14_Witness ==
    /\ Applied("_enhance_recommendation_with_mcp")
    /\ fn.score = Mean(<<15>>)
    /\ Technicals.found
    /\ Technicals.rsi = 25
    /\ fn.ret.recommendation = "Buy"
    /\ fn.ret.confidence = 50

(* C15, as stated: RSI below 30 turns a Hold into a Buy with a further +0.1
   of confidence, RSI above 70 turns a Buy into a Hold with a further -0.1,
   a Sell is never changed; avg_polarity 0.0 with RSI 20 gives Buy with
   confidence 0.7. *)
C15_OverrideApplied ==
    Applied("_enhance_recommendation_with_mcp") =>
        /\ (Oversold /\ fn.base_rec = "Hold") =>
              (fn.ret.recommendation = "Buy" /\ fn.ret.confidence = Clamp(Nudged + 10))
        /\ (Overbought /\ fn.base_rec = "Buy") =>
              (fn.ret.recommendation = "Hold" /\ fn.ret.confidence = Clamp(Nudged - 10))
        /\ fn.base_rec = "Sell" => fn.ret.recommendation = "Sell"

(* C15, amended: no override fires in the recommendation path, because
   factors never holds a technical snapshot: the final recommendation is the
   base recommendation whatever the RSI, with no further change of the
   confidence; a Sell is never changed, and avg_polarity 0.0 with RSI 20
   gives Hold with confidence 0.5. *)
C15_NoOverride ==
    Applied("_enhance_recommendation_with_mcp") =>
        /\ fn.ret.recommendation = fn.base_rec
        /\ fn.ret.recommendation = _recommendation_from_score(fn.ret.avg_polarity)
        /\ (Oversold \/ Overbought) => fn.ret.confidence = 50

C15_Witness ==
    /\ Applied("_enhance_recommendation_with_mcp")
    /\ fn.score = Mean(<<0>>)
    /\ Technicals.found
    /\ Technicals.rsi = 20
    /\ fn.ret.recommendation = "Hold"
    /\ fn.ret.confidence = 50

(* C16: whatever the lookups give, a recommendation is returned whose factors
   hold sentiment, and hold technical (fundamental) only when that lookup
   produced non-empty data. *)
C16_FactorsOnlyWithData ==
    (Applied("_enhance_recommendation_with_mcp")
        \/ Applied("enhance_recommendation_with_mcp")) =>
        /\ fn.ret.recommendation \in {"Buy", "Hold", "Sell"}
        /\ "sentiment" \in DOMAIN fn.ret.factors
        /\ "technical" \in DOMAIN fn.ret.factors => Technicals.found
        /\ "fundamental" \in DOMAIN fn.ret.factors => Fundamentals.found

(* the API key the adapter of a call is configured with *)
KeyOf(method) ==
    IF method = "search_news_for_query" THEN env.NEWSAPI_AI_KEY
    ELSE env.INDIAN_STOCK_API_KEY

(* C17: with no API key configured, the first use of a provider's adapter
   ends in an error raised before any request is sent, not in an empty
   result. *)
C17_MissingKeyRaises ==
    (/\ AdapterFinished(AllAdapterCalls)
     /\ ad_call.arg # ""
     /\ KeyOf(ad_call.method) = "") =>
        /\ ad_pc = "raised"
        /\ ad_sent = <<>>

NewsAdapters == {"fetch_news", "search_news_for_query", "_fetch_news_for_ticker"}

(* C18: every news item an adapter returns carries as ticker exactly the
   symbol the caller passed (for IndianStockAPI with its .NS/.BO suffix,
   while the upstream request names the stock without it), never a value of
   the upstream payload. *)
C18_TickerIsCallersSymbol ==
    (AdapterFinished(NewsAdapters) /\ ad_pc = "returned") =>
        /\ \A i \in 1..Len(ad_ret.news) : ad_ret.news[i].ticker = ad_call.arg
        /\ ad_call.method = "fetch_news" =>
              \A j \in 1..Len(ad_sent) :
                  /\ ad_sent[j].name \in {"TCS", "RELIANCE"}
                  /\ ad_sent[j].name # ad_call.arg

C18_Witness ==
    /\ AdapterFinished({"fetch_news"})
    /\ ad_pc = "returned"
    /\ ad_call.arg = "TCS.NS"
    /\ ad_sent[1].name = "TCS"
    /\ Len(ad_ret.news) = 1
    /\ ad_ret.news[1].title = JStr("H2")
    /\ "ticker" \in DOMAIN AcceptedBody.o["articles"].a[1].o
    /\ ad_ret.news[1].ticker = "TCS.NS"

(* C19: during an uncached news() call at most 20 fetches are in progress at
   any moment, every ticker of the universe is submitted exactly once, and
   news() writes the cache and returns only after every submitted fetch has
   been joined. *)
C19_BoundedPoolThenJoin ==
    /\ pool.running <= 20
    /\ pool.submitted <= 109
    /\ pool.queued + pool.running + pool.done = pool.submitted
    /\ pool.queued > 0 => pool.running = 20
    /\ pool.phase \in {"collecting", "returned"} => pool.submitted = 109
    /\ pool.phase = "returned" =>
          (pool.done = 109 /\ pool.running = 0 /\ pool.queued = 0)

C19_Witness ==
    /\ pool.phase = "submitting"
    /\ pool.running = 20
    /\ pool.queued > 0
    /\ pool.done > 0

(* C20: for every text that is empty, null or whitespace-only the sentiment
   score is exactly polarity 0.0 and subjectivity 0.0 and no TextBlob is
   built; so a news item whose title and summary are both empty gets a
   record with polarity 0.0 in sentiment(). *)
IsBlank(text) == text = None \/ \A i \in 1..Len(text) : text[i] = SP

C20_BlankTextScoresZero ==
    /\ (Applied("_analyze_sentiment") /\ IsBlank(fn.text)) =>
          /\ fn.ret.scores = [polarity |-> 0, subjectivity |-> 0]
          /\ fn.ret.blobs = <<>>
    /\ (Applied("sentiment") /\ fn.item.title = <<>> /\ fn.item.summary = <<>>) =>
          /\ fn.ret.polarity = 0
          /\ fn.ret.subjectivity = 0

C20_Witness ==
    /\ Applied("_analyze_sentiment")
    /\ fn.text = <<SP, SP>>
    /\ fn.ret.blobs = <<>>
    /\ fn.ret.scores.polarity = 0

(* a sentiment() call begins in this step *)
SentimentCalled == pc = "idle" /\ pc' # "idle" /\ call' = "sentiment"
AgeOf(key) == now - cache[key].timestamp

(* C21: _get_cache returns the stored value unchanged and keeps the entry
   while the entry's age is at most 300 seconds, the age of exactly 300
   included; when the age is above 300 it returns None and removes the
   entry, and the key stays absent until the next _set_cache. *)
C21_GetCacheWindow ==
    [][ /\ (NewsCalled /\ "news_all" \in DOMAIN cache) =>
              IF AgeOf("news_all") <= 300
              THEN /\ ret' = [items |-> cache["news_all"].data]
                   /\ cache' = cache
              ELSE /\ "news_all" \notin DOMAIN cache'
                   /\ pc' = "fanout"
        /\ (SentimentCalled /\ "sentiment_all" \in DOMAIN cache) =>
              IF AgeOf("sentiment_all") <= 300
              THEN /\ ret' = [records |-> cache["sentiment_all"].data]
                   /\ cache' = cache
              ELSE /\ pc' = "fanout" => "sentiment_all" \notin DOMAIN cache'
                   /\ pc' = "done" => cache'["sentiment_all"].timestamp = now
        /\ \A key \in CacheKeys :
              (key \notin DOMAIN cache /\ pc' # "done") => key \notin DOMAIN cache'
      ]_vars

(* C21 witness: news() is fetching again after the entry of news_all, from
   which the entry of sentiment_all was once computed, has been removed. *)
C21_Witness ==
    /\ pc = "fanout"
    /\ call = "news"
    /\ "sentiment_all" \in DOMAIN cache
    /\ "news_all" \notin DOMAIN cache

(* the records sentiment() handed to recommendations() for a ticker *)
RecordsOf(t) == ItemsOfTicker(cache["sentiment_all"].data, t)
PolaritiesOf(records) == [i \in 1..Len(records) |-> records[i].polarity]

(* C22: for every ticker in the output of recommendations(), avg_polarity is
   the arithmetic mean of the polarity of all SentimentRecords of that
   ticker and news_count is the number of those records, at least 1. *)
C22_MeanOfAllRecords ==
    Returned("recommendations") =>
        \A i \in 1..Len(ret.rows) :
            LET row == ret.rows[i]
                records == RecordsOf(row.ticker)
            IN  /\ row.news_count = Len(records)
                /\ row.news_count >= 1
                /\ row.avg_polarity.den > 0
                /\ row.avg_polarity.num * Len(records) =
                      SeqSum(PolaritiesOf(records)) * row.avg_polarity.den

(* C22 witness: recommendations() returned the row of a ticker with two
   records of different polarity. *)
C22_Witness ==
    /\ Returned("recommendations")
    /\ \E i \in 1..Len(ret.rows) :
        /\ ret.rows[i].news_count = 2
        /\ RecordsOf(ret.rows[i].ticker)[1].polarity #
              RecordsOf(ret.rows[i].ticker)[2].polarity

(* the value of the first key of `keys` the item has, else the empty string *)
RECURSIVE FirstPresent(_, _)
FirstPresent(item, keys) ==
    IF keys = <<>> THEN JStr("")
    ELSE IF Head(keys) \in DOMAIN item.o THEN item.o[Head(keys)]
    ELSE FirstPresent(item, Tail(keys))

PublisherIn(item) ==
    IF "source" \in DOMAIN item.o /\ IsDict(item.o["source"])
       /\ "name" \in DOMAIN item.o["source"].o
    THEN item.o["source"].o["name"]
    ELSE FirstPresent(item, <<"source", "publisher", "author">>)

(* C23: in every item _parse_news returns each of title, summary, publisher
   and link is a string: the empty string when the field is absent upstream
   under all of its names, and otherwise the value of the first present name
   (title, headline; summary, description, content; source.name, source,
   publisher, author; url, link, webUrl). *)
C23_FieldsAreStrings ==
    (ParsedAccepted({"fetch_news"}) /\ ad_pc = "returned") =>
        LET raw == DictsIn(NewsContainer(AcceptedBody))
        IN  /\ Len(ad_ret.news) = Len(raw)
            /\ \A i \in 1..Len(raw) :
                  LET n == ad_ret.news[i]
                  IN  /\ n.title = FirstPresent(raw[i], <<"title", "headline">>)
                      /\ n.summary = FirstPresent(raw[i],
                                        <<"summary", "description", "content">>)
                      /\ n.publisher = PublisherIn(raw[i])
                      /\ n.link = FirstPresent(raw[i], <<"url", "link", "webUrl">>)
                      /\ n.title.t = "str"
                      /\ n.summary.t = "str"
                      /\ n.publisher.t = "str"
                      /\ n.link.t = "str"

HasPrice(hist) == \E i \in 1..hist.n : i \notin hist.nans
GapInLast(hist, window) == \E i \in (hist.n - window + 1)..hist.n : i \in hist.nans
IsNull(v) == v.t = "null"

(* C24: get_technical_indicators returns an empty result whenever the price
   history has fewer than 20 points; with n >= 20 points it returns a
   snapshot in which the value of every requested SMA or EMA window w is
   null when n < w and computed otherwise, and in which rsi is the neutral
   50 when n < rsi_window + 1. *)
C24_SnapshotPerWindow ==
    Applied("get_technical_indicators") =>
        LET n == fn.hist.n
        IN  /\ n < 20 => fn.ret.empty
            /\ n >= 20 =>
                  /\ ~fn.ret.empty
                  /\ \A w \in DOMAIN fn.ret.sma : IsNull(fn.ret.sma[w]) <=> n < w
                  /\ \A w \in DOMAIN fn.ret.ema : IsNull(fn.ret.ema[w]) <=> n < w
                  /\ n < fn.windows.rsi_window + 1 => fn.ret.rsi = 50

(* C24, amended: the result is empty whenever the history has fewer than 20
   rows or no close that is a number; with n >= 20 rows and a close that is
   a number it is a snapshot with a value for exactly the requested windows,
   in which every EMA of window w is null when n < w and computed otherwise,
   every SMA of window w is null when n < w or one of the last w closes is
   missing and computed otherwise, and rsi is 50 when n < rsi_window + 1. *)
C24_SnapshotPerWindowOfPrices ==
    Applied("get_technical_indicators") =>
        LET n == fn.hist.n
        IN  /\ (n < 20 \/ ~HasPrice(fn.hist)) => fn.ret.empty
            /\ (n >= 20 /\ HasPrice(fn.hist)) =>
                  /\ ~fn.ret.empty
                  /\ DOMAIN fn.ret.sma = Range(fn.windows.sma_windows)
                  /\ DOMAIN fn.ret.ema = Range(fn.windows.ema_windows)
                  /\ \A w \in DOMAIN fn.ret.sma :
                        IsNull(fn.ret.sma[w]) <=> (n < w \/ GapInLast(fn.hist, w))
                  /\ \A w \in DOMAIN fn.ret.ema : IsNull(fn.ret.ema[w]) <=> n < w
                  /\ n < fn.windows.rsi_window + 1 => fn.ret.rsi = 50

(* C24 witness: a history of exactly 20 rows with every close gives the SMA
   of 20 days and no SMA of 50 days. *)
C24_Witness ==
    /\ Applied("get_technical_indicators")
    /\ fn.hist.n = 20
    /\ fn.hist.nans = {}
    /\ fn.windows = DefaultWindows
    /\ ~fn.ret.empty
    /\ ~IsNull(fn.ret.sma[20])
    /\ IsNull(fn.ret.sma[50])
    /\ ~IsNull(fn.ret.ema[12])
    /\ IsNull(fn.ret.ema[26])

(* the news the report runner collected, in the order of TICKERS *)
ReportNews ==
    Concat([i \in 1..Len(TICKERS) |->
               IF fut[TICKERS[i]] = "failed" THEN <<>> ELSE Cleaned(TICKERS[i])])

(* C25: for the same news fetched per ticker, generate_recommendations() of
   the report runner produces the same rows as the recommendations()
   endpoint: the same tickers in the same order, each with the same label
   and the same news_count. *)
C25_ReportMatchesEndpoint ==
    Returned("report") =>
        LET rows == RecommendOf(SentimentOf(ReportNews))
        IN  /\ Len(ret.csv_rows) = Len(rows)
            /\ \A i \in 1..Len(rows) :
                  /\ ret.csv_rows[i].ticker = rows[i].ticker
                  /\ ret.csv_rows[i].recommendation = rows[i].recommendation
                  /\ ret.csv_rows[i].news_count = rows[i].news_count

(* the entry of `key` is there and within its window of 5 minutes *)
Fresh(key) == key \in DOMAIN cache /\ AgeOf(key) <= 300

(* C26: after any sequence of news() and sentiment() calls and clock
   advances, the list sentiment() returns is the per-item scoring of the
   list news() returns at that moment, and the entry of sentiment_all never
   outlives the entry of news_all it was computed from. *)
C26_SentimentTracksNews ==
    /\ Returned("sentiment") =>
          /\ Fresh("news_all")
          /\ ret.records = SentimentOf(cache["news_all"].data)
    /\ Fresh("sentiment_all") =>
          /\ Fresh("news_all")
          /\ cache["sentiment_all"].data = SentimentOf(cache["news_all"].data)

(* C27: concurrent _get_cache calls on the same expired key never fail: for
   every interleaving of the membership test, the read and the delete of two
   request threads, each call returns None or the stored value and none
   raises a missing-key error. *)
C27_ConcurrentGetCacheNeverRaises ==
    \A i \in Threads :
        /\ threads[i].pc # "raised"
        /\ threads[i].ret.kind # "KeyError"

(* thread i returns from its fan-out in this step *)
Joins(i) == threads[i].pc = "fanout" /\ threads'[i].pc = "done"
FannedOut(i) == \A t \in Tickers : threads[i].fut[t] \in {"ok", "failed"}

(* C28: when two news() calls overlap and both miss the cache, each runs its
   own complete fan-out over the ticker universe, the entry of news_all
   finally holds exactly the list written by the call that finishes last,
   and the entry is never a mixture of items collected by the two calls. *)
C28_LastWriterWins ==
    [][ /\ \A i \in Threads :
              Joins(i) =>
                  /\ FannedOut(i)
                  /\ \A t \in Tickers :
                        ItemsOfTicker(threads[i].all_news, t) =
                            IF threads[i].fut[t] = "ok" THEN Cleaned(t) ELSE <<>>
                  /\ threads'[i].ret = Items(threads[i].all_news)
                  /\ cache'["news_all"] = [data |-> threads[i].all_news, timestamp |-> now]
        /\ (/\ \A i \in Threads : ~Joins(i)
            /\ "news_all" \in DOMAIN cache
            /\ "news_all" \in DOMAIN cache') => cache'["news_all"] = cache["news_all"]
      ]_vars

(* C28 witness: both calls missed, fetched with different outcomes and
   returned different lists, and the entry holds the list of the second. *)
C28_Witness ==
    /\ \A i \in Threads : threads[i].pc = "done" /\ FannedOut(i)
    /\ threads[1].all_news # <<>>
    /\ threads[2].all_news # <<>>
    /\ TickersOf(threads[1].all_news) \cap TickersOf(threads[2].all_news) = {}
    /\ cache["news_all"].data = threads[2].all_news

(* a recommendations() call begins in this step *)
RecommendationsCalled == pc = "idle" /\ pc' # "idle" /\ call' = "recommendations"
(* news() returns from a fan-out in which a fetch failed *)
JoinsAfterFailure ==
    /\ pc = "fanout"
    /\ pc' = "done"
    /\ \E t \in Tickers : fut[t] = "failed"

(* C29: news() caches its result also when some or all fetches failed, the
   empty list included: until the TTL expires later news() calls return
   that result and fetch nothing again, and recommendations() returns an
   empty list while the cached news is empty. *)
C29_FailedResultCached ==
    [][ /\ JoinsAfterFailure =>
              cache'["news_all"] = [data |-> all_news, timestamp |-> now]
        /\ (NewsCalled /\ NewsFresh) =>
              /\ pc' = "done"
              /\ ret' = [items |-> cache["news_all"].data]
              /\ fut' = NoFutures
        /\ (RecommendationsCalled /\ NewsFresh /\ cache["news_all"].data = <<>>) =>
              /\ pc' = "done"
              /\ ret' = [rows |-> <<>>]
      ]_vars

(* C30: in the recommendation path as implemented, in which the technical
   and fundamental lookups are not made, every row recommendations() returns
   has confidence exactly 0.5, factors equal to {sentiment: avg_polarity}
   and nothing else, and the threshold label of its avg_polarity as
   recommendation: no override changes the label. *)
C30_SentimentOnlyRows ==
    Returned("recommendations") =>
        \A i \in 1..Len(ret.rows) :
            LET row == ret.rows[i]
            IN  /\ row.confidence = 50
                /\ DOMAIN row.factors = {"sentiment"}
                /\ row.factors["sentiment"] = row.avg_polarity
                /\ row.recommendation = ThresholdLabel(row.avg_polarity)

(* C30 witness: recommendations() returned a Hold row for a ticker that the
   technical lookup would find oversold and a Buy row for a ticker it would
   find overbought. *)
C30_Witness ==
    /\ Returned("recommendations")
    /\ \E i, j \in 1..Len(ret.rows) :
        /\ ret.rows[i].recommendation = "Hold"
        /\ market[ret.rows[i].ticker].technical = "data"
        /\ market[ret.rows[i].ticker].rsi < 30
        /\ ret.rows[j].recommendation = "Buy"
        /\ market[ret.rows[j].ticker].technical = "data"
        /\ market[ret.rows[j].ticker].rsi > 70

===========================================================================
